---- MODULE Spec2Model ----
(***************************************************************************)
(* A model of tehtris_edr_installer.py: the element-location chain         *)
(* (click_with_win32gui, find_text_on_screen, smart_find_and_click), the   *)
(* retry wrapper and the wizard sequence of run_installation.              *)
(*                                                                         *)
(* Texts are sequences of one-character strings, so that lower(),          *)
(* replace('&', ''), startswith and the `in` substring test are computed.  *)
(* Durations of time.sleep are in milliseconds; the clock of               *)
(* wait_for_completion is in seconds.                                      *)
(***************************************************************************)
EXTENDS Integers, Sequences, FiniteSets, TLC

VARIABLES
  dry_run,              \* self.dry_run
  msi_exists,           \* self.msi_path.exists()
  tag,                  \* self.config['tag']
  PYWINAUTO_AVAILABLE,  \* module flag, set by the import at load time
  PYAUTOGUI_AVAILABLE,  \* module flag, set by the import at load time
  max_retries,          \* self.max_retries
  exit_code,            \* what main passed to sys.exit, -1 while the process runs
  state,                \* the wizard state run_installation is in
  result,               \* "running", or the value run_installation returned
  ret,                  \* what the step executed last reported: "True", "False", "raise"
  visited,              \* the wizard states entered, in order
  calls,                \* how often each step handler has been invoked
  app,                  \* self.app: "None" or "bound"
  desk,                 \* the window-handle tree the last step enumerated
  frame,                \* the OCR data of the screen the last step captured
  keyFails,             \* whether pyautogui.hotkey raised in the last step
  log,                  \* probes, actions and sleeps of the last step, in order
  waiting,              \* whether the polling loop of wait_for_completion is running
  elapsed,              \* wait_for_completion: time.time() - start_time, seconds
  query,                \* resolver specification: the request resolved
  out,                  \* resolver specification: what the resolution returned
  opFails,              \* retry specification: which calls of the operation raise
  attempt,              \* retry specification: loop variable of _retry_operation
  opCalls,              \* retry specification: calls of the operation so far
  slept,                \* retry specification: the time.sleep durations so far
  retryOut              \* retry specification: "running", "returned", "None", "raised"

vars ==
  <<dry_run, msi_exists, tag, PYWINAUTO_AVAILABLE, PYAUTOGUI_AVAILABLE, max_retries,
    exit_code,
    state, result, ret, visited, calls, app, desk, frame, keyFails, log, waiting, elapsed,
    query, out, opFails, attempt, opCalls, slept, retryOut>>

(***************************************************************************)
(* Text                                                                    *)
(***************************************************************************)

\* str.lower() on one character, for the letters the texts use.
LowerChar(c) ==
  CASE c = "A" -> "a" [] c = "B" -> "b" [] c = "C" -> "c" [] c = "D" -> "d"
    [] c = "E" -> "e" [] c = "F" -> "f" [] c = "G" -> "g" [] c = "H" -> "h"
    [] c = "I" -> "i" [] c = "J" -> "j" [] c = "K" -> "k" [] c = "L" -> "l"
    [] c = "M" -> "m" [] c = "N" -> "n" [] c = "O" -> "o" [] c = "P" -> "p"
    [] c = "Q" -> "q" [] c = "R" -> "r" [] c = "S" -> "s" [] c = "T" -> "t"
    [] c = "U" -> "u" [] c = "V" -> "v" [] c = "W" -> "w" [] c = "X" -> "x"
    [] c = "Y" -> "y" [] c = "Z" -> "z" [] c = "É" -> "é"
    [] OTHER -> c

\* s.lower()
Lower(s) ==
  [i \in 1..Len(s) |-> LowerChar(s[i])]

IsNotAmp(c) ==
  c # "&"

\* s.replace('&', '')
StripAmp(s) ==
  SelectSeq(s, IsNotAmp)

\* sub in s
Contains(sub, s) ==
  \E i \in 0..(Len(s) - Len(sub)) : SubSeq(s, i + 1, i + Len(sub)) = sub

\* s.startswith(prefix)
StartsWith(s, prefix) ==
  /\ Len(prefix) <= Len(s)
  /\ SubSeq(s, 1, Len(prefix)) = prefix

(***************************************************************************)
(* The string literals of the source                                       *)
(***************************************************************************)
S_XPG_ ==
  <<"X","P","G","_">>
S_XPG_QAT ==
  <<"X","P","G","_","Q","A","T">>
S_server_address ==
  <<"x","p","g","a","p","p","1","6",".","t","e","h","t","r","i","s",".","n","e","t">>
S_license_key ==
  <<"M","H","8","3","-","2","C","D","X","-","9","D","X","Q","-","L","G","8","9","-","9","2","F","F">>
S_TEHTRIS_EDR_Setup ==
  <<"T","E","H","T","R","I","S"," ","E","D","R"," ","S","e","t","u","p">>
S_not ==
  <<"n","o","t">>
S_Next ==
  <<"N","e","x","t">>
S_AmpNext_gt ==
  <<"&","N","e","x","t"," ",">">>
S_Next_gt ==
  <<"N","e","x","t"," ",">">>
S_Suivant_gt ==
  <<"S","u","i","v","a","n","t"," ",">">>
S_Suivant ==
  <<"S","u","i","v","a","n","t">>
S_accept ==
  <<"a","c","c","e","p","t">>
S_I_accept ==
  <<"I"," ","a","c","c","e","p","t">>
S_Jaccepte ==
  <<"J","'","a","c","c","e","p","t","e">>
S_accepte ==
  <<"a","c","c","e","p","t","e">>
S_Install ==
  <<"I","n","s","t","a","l","l">>
S_Installer ==
  <<"I","n","s","t","a","l","l","e","r">>
S_Install_gt ==
  <<"I","n","s","t","a","l","l"," ",">">>
S_Finish ==
  <<"F","i","n","i","s","h">>
S_Close ==
  <<"C","l","o","s","e">>
S_kw_next ==
  <<"n","e","x","t">>
S_kw_accept ==
  <<"a","c","c","e","p","t">>
S_kw_install ==
  <<"i","n","s","t","a","l","l">>
S_kw_finish ==
  <<"f","i","n","i","s","h">>
S_role_welcome ==
  <<"N","e","x","t"," ","b","u","t","t","o","n"," ","(","w","e","l","c","o","m","e"," ","s","c","r","e","e","n",")">>
S_role_accept ==
  <<"I"," ","a","c","c","e","p","t"," ","r","a","d","i","o"," ","b","u","t","t","o","n">>
S_role_license ==
  <<"N","e","x","t"," ","b","u","t","t","o","n"," ","(","l","i","c","e","n","s","e"," ","s","c","r","e","e","n",")">>
S_role_activation ==
  <<"N","e","x","t"," ","b","u","t","t","o","n"," ","(","a","c","t","i","v","a","t","i","o","n"," ","s","c","r","e","e","n",")">>
S_role_install ==
  <<"I","n","s","t","a","l","l"," ","b","u","t","t","o","n">>
S_server ==
  <<"s","e","r","v","e","r">>
S_tag ==
  <<"t","a","g">>
S_license ==
  <<"l","i","c","e","n","s","e">>
S_Server_address ==
  <<"S","e","r","v","e","r"," ","a","d","d","r","e","s","s">>
S_Adresse_serveur ==
  <<"A","d","r","e","s","s","e"," ","s","e","r","v","e","u","r">>
S_Server ==
  <<"S","e","r","v","e","r">>
S_Serveur ==
  <<"S","e","r","v","e","u","r">>
S_Tag ==
  <<"T","a","g">>
S_Etiquette ==
  <<"É","t","i","q","u","e","t","t","e">>
S_License_key ==
  <<"L","i","c","e","n","s","e"," ","k","e","y">>
S_Cle_de_licence ==
  <<"C","l","é"," ","d","e"," ","l","i","c","e","n","c","e">>
S_License ==
  <<"L","i","c","e","n","s","e">>
S_Licence ==
  <<"L","i","c","e","n","c","e">>

(***************************************************************************)
(* Texts of the screens and requests the model draws from                  *)
(***************************************************************************)
T_Cancel ==
  <<"C","a","n","c","e","l">>
T_I_accept ==
  <<"I"," ","&","a","c","c","e","p","t">>
T_I_do_not_accept ==
  <<"I"," ","d","o"," ","&","n","o","t"," ","a","c","c","e","p","t">>
T_Install ==
  <<"&","I","n","s","t","a","l","l">>
T_Finish ==
  <<"&","F","i","n","i","s","h">>
T_Close ==
  <<"&","C","l","o","s","e">>
T_Welcome ==
  <<"W","e","l","c","o","m","e">>
T_Other ==
  <<"N","o","t","e","p","a","d">>
T_Next_steps ==
  <<"N","e","x","t"," ","s","t","e","p","s">>
T_AmpNext ==
  <<"&","N","e","x","t">>
T_role_finish ==
  <<"F","i","n","i","s","h"," ","b","u","t","t","o","n">>
T_role_cancel ==
  <<"C","a","n","c","e","l"," ","b","u","t","t","o","n">>
T_role_install_next ==
  <<"I","N","S","T","A","L","L",","," ","t","h","e","n"," ","N","e","x","t">>
T_QAT ==
  <<"Q","A","T">>
T_XPG_TEST ==
  <<"X","P","G","_","T","E","S","T">>

(***************************************************************************)
(* Bounds of the model                                                     *)
(***************************************************************************)

\* retry specification: max_retries ranges over 0..MaxAttempts
MaxAttempts == 4

(***************************************************************************)
(* Small helpers                                                           *)
(***************************************************************************)

Min(S) ==
  CHOOSE m \in S : \A x \in S : m <= x

RECURSIVE SortedSeq(_)
\* the elements of a finite set of integers, ascending
SortedSeq(S) ==
  IF S = {} THEN <<>> ELSE <<Min(S)>> \o SortedSeq(S \ {Min(S)})

\* one entry of the log: kind k, a text s and two numbers n, m
Ev(k, s, n, m) ==
  [k |-> k, s |-> s, n |-> n, m |-> m]

\* time.sleep(ms / 1000)
Sleep(ms) ==
  Ev("sleep", <<>>, ms, 0)

(***************************************************************************)
(* __init__                                                                *)
(***************************************************************************)

\* self.max_retries = 3
init_max_retries == 3

\* self.retry_delay = 2 (seconds)
retry_delay == 2

(***************************************************************************)
(* _retry_operation                                                        *)
(***************************************************************************)

\* a range that runs one attempt too far
mut_retry_range(n) ==
  0..n

\* for attempt in range(self.max_retries): the values attempt takes
retry_range(n) ==
  0..(n - 1)

\* a delay that doubles with every attempt
mut_backoff(a) ==
  retry_delay * (2 ^ a)

\* time.sleep(self.retry_delay * (attempt + 1)): the seconds slept after the
\* failure of attempt a (counted from 0)
backoff(a) ==
  retry_delay * (a + 1)

\* One iteration of the loop: call the operation; return its result, or on an
\* exception re-raise it in the last iteration and sleep before the next otherwise.
RetryAttempt ==
  /\ retryOut = "running"
  /\ attempt \in retry_range(max_retries)
  /\ opCalls' = opCalls + 1
  /\ IF ~opFails[opCalls + 1]
       THEN /\ retryOut' = "returned"
            /\ UNCHANGED <<attempt, slept>>
       ELSE IF attempt = max_retries - 1
              THEN /\ retryOut' = "raised"
                   /\ UNCHANGED <<attempt, slept>>
              ELSE /\ slept' = Append(slept, backoff(attempt) * 1000)
                   /\ attempt' = attempt + 1
                   /\ UNCHANGED retryOut
  /\ UNCHANGED <<dry_run, msi_exists, tag, PYWINAUTO_AVAILABLE, PYAUTOGUI_AVAILABLE,
                 max_retries, exit_code, state, result, ret, visited, calls, app, desk, frame,
                 keyFails, log, waiting, elapsed, query, out, opFails>>

\* The range is exhausted without a return or a raise: the function falls off its
\* end and returns None.
RetryFallsThrough ==
  /\ retryOut = "running"
  /\ attempt \notin retry_range(max_retries)
  /\ retryOut' = "None"
  /\ UNCHANGED <<dry_run, msi_exists, tag, PYWINAUTO_AVAILABLE, PYAUTOGUI_AVAILABLE,
                 max_retries, exit_code, state, result, ret, visited, calls, app, desk, frame,
                 keyFails, log, waiting, elapsed, query, out, opFails, attempt, opCalls, slept>>

(***************************************************************************)
(* The screen: native window handles and OCR data                          *)
(***************************************************************************)

\* A child control as win32gui reports it. postFails: PostMessage to it raises.
Control(cls, text, visible, postFails) ==
  [cls |-> cls, text |-> text, visible |-> visible, postFails |-> postFails]

\* A top-level window. enumFails: EnumChildWindows on it raises.
Window(title, visible, enumFails, children) ==
  [title |-> title, visible |-> visible, enumFails |-> enumFails, children |-> children]

\* The desktop. enumFails: EnumWindows raises. A hwnd is an index into wins.
Desk(enumFails, wins) ==
  [enumFails |-> enumFails, wins |-> wins]

\* One entry of pytesseract.image_to_data.
OcrItem(text, conf, left, top, width, height) ==
  [text |-> text, conf |-> conf, left |-> left, top |-> top, width |-> width,
   height |-> height]

\* What a screenshot yields. fails: the capture or the OCR raises.
Frame(fails, items) ==
  [fails |-> fails, items |-> items]

\* Optional[Tuple[int, int]]
None ==
  <<>>

(***************************************************************************)
(* find_text_on_screen                                                     *)
(***************************************************************************)

\* the default of the parameter confidence, times 100
confidence_percent == 80

\* the test of the search loop for entry i
text_matches(text, item) ==
  /\ Contains(Lower(text), Lower(item.text))
  /\ item.conf > confidence_percent

\* the centre of entry i
item_center(item) ==
  <<item.left + item.width \div 2, item.top + item.height \div 2>>

\* return (x, y) for the first entry that passes the test, None when none does
first_match(hits, items) ==
  IF hits = {} THEN None ELSE item_center(items[Min(hits)])

find_text_on_screen(text, f, pyag, dry) ==
  IF ~pyag \/ dry THEN None
  ELSE IF f.fails THEN None
  ELSE first_match({i \in 1..Len(f.items) : text_matches(text, f.items[i])}, f.items)

(***************************************************************************)
(* click_with_win32gui                                                     *)
(***************************************************************************)

\* the least element of a set of positions, 0 for the empty set
FirstOf(S) ==
  IF S = {} THEN 0 ELSE Min(S)

\* win32gui.FindWindow(None, title): a top-level window of exactly that title, or 0
FindWindow(d, title) ==
  FirstOf({h \in 1..Len(d.wins) : d.wins[h].title = title})

\* the callback find_tehtris_windows
is_tehtris_window(w) ==
  /\ w.visible
  /\ w.title # <<>>
  /\ Contains(S_TEHTRIS_EDR_Setup, w.title)

\* tehtris_windows = [hwnd] if FindWindow returned one
found_window(hwnd) ==
  IF hwnd # 0 THEN <<hwnd>> ELSE <<>>

\* tehtris_windows after EnumWindows, or after FindWindow when EnumWindows raised
tehtris_windows(d) ==
  IF d.enumFails
    THEN found_window(FindWindow(d, S_TEHTRIS_EDR_Setup))
    ELSE SortedSeq({h \in 1..Len(d.wins) : is_tehtris_window(d.wins[h])})

\* the log of the window enumeration
enum_windows(d) ==
  IF d.enumFails
    THEN <<Ev("EnumWindows", <<>>, 0, 0), Ev("FindWindow", <<>>, 0, 0)>>
    ELSE <<Ev("EnumWindows", <<>>, 0, 0)>>

\* a test that does not look for "not"
mut_clean_text_matches(clean_button_text, clean_window_text, class_name) ==
  /\ Contains(clean_button_text, clean_window_text)
  /\ class_name = "Button"

\* the test of find_button_callback that stops the enumeration
clean_text_matches(clean_button_text, clean_window_text, class_name) ==
  /\ Contains(clean_button_text, clean_window_text)
  /\ class_name = "Button"
  /\ ~Contains(S_not, clean_window_text)

button_matches(button_text, c) ==
  /\ c.visible
  /\ c.text # <<>>
  /\ clean_text_matches(Lower(StripAmp(button_text)), Lower(StripAmp(c.text)), c.cls)

\* an enumeration that keeps the last matching child
mut_find_button(button_text, w) ==
  IF {b \in 1..Len(w.children) : button_matches(button_text, w.children[b])} = {}
    THEN 0
    ELSE Len(w.children)
         - FirstOf({Len(w.children) - b : b \in
                      {c \in 1..Len(w.children) :
                         button_matches(button_text, w.children[c])}})

\* button_info['hwnd'] after EnumChildWindows: the first matching child, or 0
find_button(button_text, w) ==
  FirstOf({b \in 1..Len(w.children) : button_matches(button_text, w.children[b])})

\* a search that posts to the handle b without enumerating the children of h
mut_search_window(h, w, b, rest) ==
  IF w.enumFails \/ b = 0
    THEN [ok |-> rest.ok, ev |-> <<Ev("EnumChildWindows", <<>>, h, 0)>> \o rest.ev]
    ELSE [ok |-> TRUE, ev |-> <<Ev("PostMessage", w.children[b].text, h, b)>>]

\* a search that moves the pointer to the button and clicks it before posting
mut_pointer_search_window(h, w, b, rest) ==
  IF w.enumFails \/ b = 0
    THEN [ok |-> rest.ok, ev |-> <<Ev("EnumChildWindows", <<>>, h, 0)>> \o rest.ev]
    ELSE [ok |-> TRUE,
          ev |-> <<Ev("EnumChildWindows", <<>>, h, 0), Ev("pointer_click", <<>>, h, b),
                   Ev("PostMessage", w.children[b].text, h, b)>>]

\* One turn of the loop over tehtris_windows, for window h = d.wins[h] = w with
\* button b found in it; rest is what the later windows give.
search_window(h, w, b, rest) ==
  IF w.enumFails \/ b = 0
    THEN [ok |-> rest.ok, ev |-> <<Ev("EnumChildWindows", <<>>, h, 0)>> \o rest.ev]
  ELSE IF w.children[b].postFails
    THEN [ok |-> rest.ok,
          ev |-> <<Ev("EnumChildWindows", <<>>, h, 0),
                   Ev("PostMessage_raised", w.children[b].text, h, b)>> \o rest.ev]
  ELSE [ok |-> TRUE,
        ev |-> <<Ev("EnumChildWindows", <<>>, h, 0),
                 Ev("PostMessage", w.children[b].text, h, b)>>]

RECURSIVE search_windows(_, _, _, _)
\* the loop over tehtris_windows from position k on
search_windows(button_text, d, ws, k) ==
  IF k > Len(ws) THEN [ok |-> FALSE, ev |-> <<>>]
  ELSE search_window(ws[k], d.wins[ws[k]], find_button(button_text, d.wins[ws[k]]),
                     search_windows(button_text, d, ws, k + 1))

\* a result with the log pre put before its own
After(pre, r) ==
  [ok |-> r.ok, ev |-> pre \o r.ev]

\* click_with_win32gui once tehtris_windows is ws
click_in_windows(button_text, d, ws) ==
  IF ws = <<>>
    THEN [ok |-> FALSE, ev |-> enum_windows(d)]
    ELSE After(enum_windows(d), search_windows(button_text, d, ws, 1))

click_with_win32gui(button_text, d) ==
  click_in_windows(button_text, d, tehtris_windows(d))

(***************************************************************************)
(* smart_find_and_click                                                    *)
(***************************************************************************)

\* self.click_coordinates(x, y, description): the class defines no attribute of
\* that name, so the call raises AttributeError before any pointer action.
click_coordinates(x, y) ==
  "raise"

\* the log entry of a call of click_coordinates with outcome c
ClickEv(c, s, x, y) ==
  Ev(IF c = "raise" THEN "click_coordinates_raised" ELSE "click", s, x, y)

\* a result with the log pre put before its own
AfterR(pre, r) ==
  [ret |-> r.ret, ev |-> pre \o r.ev]

\* nothing returned yet: the next strategy runs
Nothing ==
  [ret |-> "none", ev |-> <<>>]

\* search_texts: the text, then its variant without or with a leading ampersand
search_texts(text) ==
  IF Contains(<<"&">>, text)
    THEN <<text, StripAmp(text)>>
    ELSE <<text, <<"&">> \o text>>

\* the search texts in the order the two nested loops of strategy 1 visit them
all_search_texts(text_options) ==
  [j \in 1..(2 * Len(text_options)) |->
     search_texts(text_options[(j + 1) \div 2])[2 - (j % 2)]]

\* if self.click_coordinates(x, y, ...): return True -- c is what the call gave
click_position(search_text, position, c, rest) ==
  IF c = "False"
    THEN AfterR(<<Ev("screenshot", search_text, 0, 0),
                  ClickEv(c, search_text, position[1], position[2])>>, rest)
    ELSE [ret |-> c,
          ev |-> <<Ev("screenshot", search_text, 0, 0),
                   ClickEv(c, search_text, position[1], position[2])>>]

\* One search of strategy 1: position is what find_text_on_screen gave for
\* search_text, rest what the later searches give.
ocr_search(search_text, position, rest) ==
  IF position = None
    THEN AfterR(<<Ev("screenshot", search_text, 0, 0)>>, rest)
    ELSE click_position(search_text, position,
                        click_coordinates(position[1], position[2]), rest)

RECURSIVE ocr_strategy(_, _, _)
\* Strategy 1 from search text j on: "True" (return True), "raise", or "none"
\* (the loops ended without a return).
ocr_strategy(sts, f, j) ==
  IF j > Len(sts) THEN Nothing
  ELSE ocr_search(sts[j], find_text_on_screen(sts[j], f, TRUE, FALSE),
                  ocr_strategy(sts, f, j + 1))

\* one fallback position p: c is what click_coordinates gave for it
fallback_click(p, c, rest) ==
  IF c = "False" THEN AfterR(<<ClickEv(c, <<>>, p[1], p[2])>>, rest)
  ELSE IF c = "True"
    THEN [ret |-> "True", ev |-> <<ClickEv(c, <<>>, p[1], p[2]), Sleep(500)>>]
  ELSE [ret |-> c, ev |-> <<ClickEv(c, <<>>, p[1], p[2])>>]

RECURSIVE fallback_strategy(_, _)
\* Strategy 3 from fallback position j on
fallback_strategy(fallback_positions, j) ==
  IF j > Len(fallback_positions) THEN Nothing
  ELSE fallback_click(fallback_positions[j],
                      click_coordinates(fallback_positions[j][1],
                                        fallback_positions[j][2]),
                      fallback_strategy(fallback_positions, j + 1))

\* the four keywords looked for in the opposite order
mut_shortcut_key(element_type_lower) ==
  IF Contains(S_kw_finish, element_type_lower) THEN "f"
  ELSE IF Contains(S_kw_install, element_type_lower) THEN "i"
  ELSE IF Contains(S_kw_accept, element_type_lower) THEN "a"
  ELSE IF Contains(S_kw_next, element_type_lower) THEN "n"
  ELSE ""

\* the key of the keyboard shortcut for the element type, "" when there is none
shortcut_key(element_type_lower) ==
  IF Contains(S_kw_next, element_type_lower) THEN "n"
  ELSE IF Contains(S_kw_accept, element_type_lower) THEN "a"
  ELSE IF Contains(S_kw_install, element_type_lower) THEN "i"
  ELSE IF Contains(S_kw_finish, element_type_lower) THEN "f"
  ELSE ""

\* pyautogui.hotkey('alt', key), then time.sleep(0.5) and return True; kf: hotkey raises
send_shortcut(key, pyag, kf) ==
  IF ~pyag \/ key = "" THEN Nothing
  ELSE IF kf THEN [ret |-> "raise", ev |-> <<Ev("hotkey_raised", <<"alt", key>>, 0, 0)>>]
  ELSE [ret |-> "True", ev |-> <<Ev("hotkey", <<"alt", key>>, 0, 0), Sleep(500)>>]

\* a resolver without the keyboard shortcuts
mut_keyboard_strategy(element_type, pyag, kf) ==
  Nothing

\* the keyboard shortcut of the element type, sent without looking at the screen
keyboard_strategy(element_type, pyag, kf) ==
  send_shortcut(shortcut_key(Lower(element_type)), pyag, kf)

\* the strategies in the order of the function body: s1 the OCR search, s3 the
\* fallback positions, kb the keyboard shortcut; then return False
strategy_chain(s1, s3, kb) ==
  IF s1.ret # "none" THEN s1
  ELSE IF s3.ret # "none" THEN AfterR(s1.ev, s3)
  ELSE IF kb.ret # "none" THEN AfterR(s1.ev \o s3.ev, kb)
  ELSE [ret |-> "False", ev |-> s1.ev \o s3.ev]

smart_find_and_click(element_type, text_options, fallback_positions, f, pyag, kf, dry) ==
  IF dry THEN [ret |-> "True", ev |-> <<>>]
  ELSE strategy_chain(IF pyag THEN ocr_strategy(all_search_texts(text_options), f, 1)
                              ELSE Nothing,
                      fallback_strategy(fallback_positions, 1),
                      keyboard_strategy(element_type, pyag, kf))

(***************************************************************************)
(* fill_field_with_win32gui, smart_fill_field                              *)
(***************************************************************************)

\* the window classes find_edit_callback collects
EditClasses ==
  {"Edit", "TextBox", "RichEdit", "RichEdit20A", "RichEdit20W"}

\* edit_controls of a window: its visible input controls, in enumeration order
edit_controls(w) ==
  SortedSeq({b \in 1..Len(w.children) :
               w.children[b].visible /\ w.children[b].cls \in EditClasses})

\* a field index that sends the tag to the first field
mut_field_index(field_label_lower) ==
  IF Contains(S_server, field_label_lower) THEN 0
  ELSE IF Contains(S_tag, field_label_lower) THEN 0
  ELSE IF Contains(S_license, field_label_lower) THEN 2
  ELSE 0

\* field_index
field_index(field_label_lower) ==
  IF Contains(S_server, field_label_lower) THEN 0
  ELSE IF Contains(S_tag, field_label_lower) THEN 1
  ELSE IF Contains(S_license, field_label_lower) THEN 2
  ELSE 0

\* the new text is set first and an empty text after it
mut_fill_control(h, c, value, pyag) ==
  <<Ev("GetWindowRect", <<>>, h, c),
    Ev("WM_SETTEXT", value, h, c), Sleep(100),
    Ev("WM_SETTEXT", <<>>, h, c), Sleep(100),
    Ev("WM_KEYDOWN_TAB", <<>>, h, c), Ev("WM_KEYUP_TAB", <<>>, h, c)>>

\* the messages sent to the edit control c of window h
fill_control(h, c, value, pyag) ==
  <<Ev("GetWindowRect", <<>>, h, c)>>
  \o (IF pyag THEN <<Ev("pointer_click", <<>>, h, c), Sleep(200)>> ELSE <<>>)
  \o <<Ev("WM_SETTEXT", <<>>, h, c), Sleep(100),
       Ev("WM_SETTEXT", value, h, c), Sleep(100),
       Ev("WM_KEYDOWN_TAB", <<>>, h, c), Ev("WM_KEYUP_TAB", <<>>, h, c)>>

\* One turn of the loop over tehtris_windows, for window h = w with edit controls
\* ec and field index fi; rest is what the later windows give.
fill_window(h, w, ec, fi, value, pyag, rest) ==
  IF w.enumFails \/ ec = <<>> \/ ~(fi < Len(ec))
    THEN After(<<Ev("EnumChildWindows", <<>>, h, 0)>>, rest)
    ELSE [ok |-> TRUE,
          ev |-> <<Ev("EnumChildWindows", <<>>, h, 0)>>
                 \o fill_control(h, ec[fi + 1], value, pyag)]

RECURSIVE fill_windows(_, _, _, _, _, _)
\* the loop over tehtris_windows from position k on
fill_windows(field_label, value, d, ws, pyag, k) ==
  IF k > Len(ws) THEN [ok |-> FALSE, ev |-> <<>>]
  ELSE fill_window(ws[k], d.wins[ws[k]], edit_controls(d.wins[ws[k]]),
                   field_index(Lower(field_label)), value, pyag,
                   fill_windows(field_label, value, d, ws, pyag, k + 1))

\* fill_field_with_win32gui once tehtris_windows is ws
fill_in_windows(field_label, value, d, ws, pyag) ==
  IF ws = <<>>
    THEN [ok |-> FALSE, ev |-> enum_windows(d)]
    ELSE After(enum_windows(d), fill_windows(field_label, value, d, ws, pyag, 1))

fill_field_with_win32gui(field_label, value, d, pyag) ==
  fill_in_windows(field_label, value, d, tehtris_windows(d), pyag)

\* the field position for a label position, with the default offsets (0, 25)
field_position(label_position) ==
  IF label_position = None THEN None
  ELSE <<label_position[1] + 0, label_position[2] + 25>>

find_input_field_by_label(label_text, f, pyag, dry) ==
  IF ~pyag \/ dry THEN None
  ELSE field_position(find_text_on_screen(label_text, f, pyag, dry))

\* after a click on the field: select all and write, which needs pyautogui
type_value(c, value, pyag, call, rest) ==
  IF c = "raise" THEN [ret |-> "raise", ev |-> call]
  ELSE IF c = "True" /\ pyag
    THEN [ret |-> "True",
          ev |-> call \o <<Sleep(300), Ev("hotkey", <<"ctrl", "a">>, 0, 0),
                           Ev("write", value, 0, 0)>>]
  ELSE IF c = "True" THEN AfterR(call \o <<Sleep(300)>>, rest)
  ELSE AfterR(call, rest)

\* One label of strategy 1 of smart_fill_field: p is what find_input_field_by_label
\* gave for it, rest what the later labels give.
label_search(label, value, p, pyag, rest) ==
  IF p = None
    THEN AfterR(IF pyag THEN <<Ev("screenshot", label, 0, 0)>> ELSE <<>>, rest)
    ELSE type_value(click_coordinates(p[1], p[2]), value, pyag,
                    <<Ev("screenshot", label, 0, 0),
                      ClickEv(click_coordinates(p[1], p[2]), label, p[1], p[2])>>,
                    rest)

RECURSIVE fill_by_label(_, _, _, _, _)
\* Strategy 1 of smart_fill_field from label j on
fill_by_label(value, label_options, f, pyag, j) ==
  IF j > Len(label_options) THEN Nothing
  ELSE label_search(label_options[j], value,
                    find_input_field_by_label(label_options[j], f, pyag, FALSE), pyag,
                    fill_by_label(value, label_options, f, pyag, j + 1))

RECURSIVE fill_by_fallback(_, _, _, _)
\* Strategy 2 of smart_fill_field from fallback position j on
fill_by_fallback(value, fallback_positions, pyag, j) ==
  IF j > Len(fallback_positions) THEN Nothing
  ELSE type_value(click_coordinates(fallback_positions[j][1], fallback_positions[j][2]),
                  value, pyag,
                  <<ClickEv(click_coordinates(fallback_positions[j][1],
                                              fallback_positions[j][2]),
                            <<>>, fallback_positions[j][1], fallback_positions[j][2])>>,
                  fill_by_fallback(value, fallback_positions, pyag, j + 1))

\* strategy 1, then strategy 2, then return False
fill_chain(s1, s2) ==
  IF s1.ret # "none" THEN s1
  ELSE IF s2.ret # "none" THEN AfterR(s1.ev, s2)
  ELSE [ret |-> "False", ev |-> s1.ev \o s2.ev]

smart_fill_field(field_name, value, label_options, fallback_positions, f, pyag, dry) ==
  IF dry THEN [ret |-> "True", ev |-> <<>>]
  ELSE fill_chain(fill_by_label(value, label_options, f, pyag, 1),
                  fill_by_fallback(value, fallback_positions, pyag, 1))

(***************************************************************************)
(* validate_prerequisites, take_screenshot, print_window_text              *)
(***************************************************************************)

\* a validation without the test of the tag
mut_validate_without_tag(pywa, exists, t) ==
  IF ~pywa THEN FALSE
  ELSE IF ~exists THEN FALSE
  ELSE TRUE

\* the prefix test with its operands exchanged
mut_validate_prerequisites(pywa, exists, t) ==
  IF ~pywa THEN FALSE
  ELSE IF ~exists THEN FALSE
  ELSE IF ~StartsWith(S_XPG_, t) THEN FALSE
  ELSE TRUE

\* pywa: pywinauto was imported; exists: self.msi_path.exists(); t: config['tag']
validate_prerequisites(pywa, exists, t) ==
  IF ~pywa THEN FALSE
  ELSE IF ~exists THEN FALSE
  ELSE IF ~StartsWith(t, S_XPG_) THEN FALSE
  ELSE TRUE

\* take_screenshot: a capture of the screen, unless unavailable or dry-run
take_screenshot(pyag, dry) ==
  IF ~pyag \/ dry THEN <<>> ELSE <<Ev("screenshot", <<>>, 0, 0)>>

\* print_window_text: the probes of its three methods
print_window_text(appv, pyag) ==
  (IF appv # "None" THEN <<Ev("pywinauto_window", <<>>, 0, 0)>> ELSE <<>>)
  \o (IF pyag THEN <<Ev("screenshot", <<>>, 0, 0)>> ELSE <<>>)
  \o <<Ev("EnumWindows", <<>>, 0, 0)>>

(***************************************************************************)
(* The step handlers                                                       *)
(***************************************************************************)

next_text_options ==
  <<S_AmpNext_gt, S_Next_gt, S_Next, S_Suivant_gt, S_Suivant>>

accept_text_options ==
  <<S_I_accept, S_Jaccepte, S_accept, S_accepte>>

install_text_options ==
  <<S_Install, S_Installer, S_Install_gt>>

server_labels ==
  <<S_Server_address, S_Adresse_serveur, S_Server, S_Serveur>>

tag_labels ==
  <<S_Tag, S_Etiquette>>

license_labels ==
  <<S_License_key, S_Cle_de_licence, S_License, S_Licence>>

\* minimize_all_windows
minimize_all_windows(pyag, dry) ==
  IF dry \/ ~pyag THEN <<>>
  ELSE <<Ev("hotkey", <<"win", "d">>, 0, 0), Sleep(1000)>>

\* a launch that gives up when the window cannot be bound
mut_start_installer(pyag, dry, popenFails, connects) ==
  IF popenFails THEN [ret |-> "False", ev |-> <<Ev("Popen_raised", <<>>, 0, 0)>>,
                      app |-> "None"]
  ELSE IF connects
    THEN [ret |-> "True",
          ev |-> <<Ev("Popen", <<>>, 0, 0), Sleep(5000)>> \o take_screenshot(pyag, dry)
                 \o <<Ev("connect", <<>>, 0, 0)>> \o print_window_text("bound", pyag),
          app |-> "bound"]
  ELSE [ret |-> "False",
        ev |-> <<Ev("Popen", <<>>, 0, 0), Sleep(5000)>> \o take_screenshot(pyag, dry)
               \o <<Ev("connect_raised", <<>>, 0, 0)>>,
        app |-> "None"]

\* launch_installer from subprocess.Popen on
start_installer(pyag, dry, popenFails, connects) ==
  IF popenFails THEN [ret |-> "False", ev |-> <<Ev("Popen_raised", <<>>, 0, 0)>>,
                      app |-> "None"]
  ELSE IF connects
    THEN [ret |-> "True",
          ev |-> <<Ev("Popen", <<>>, 0, 0), Sleep(5000)>> \o take_screenshot(pyag, dry)
                 \o <<Ev("connect", <<>>, 0, 0)>> \o print_window_text("bound", pyag),
          app |-> "bound"]
  ELSE [ret |-> "True",
        ev |-> <<Ev("Popen", <<>>, 0, 0), Sleep(5000)>> \o take_screenshot(pyag, dry)
               \o <<Ev("connect_raised", <<>>, 0, 0)>>,
        app |-> "None"]

\* a launch result with the log pre put before its own
AfterL(pre, r) ==
  [ret |-> r.ret, ev |-> pre \o r.ev, app |-> r.app]

\* a launch that does not look at dry_run
mut_launch_installer(dry, pyag, popenFails, connects) ==
  AfterL(minimize_all_windows(pyag, dry) \o take_screenshot(pyag, dry),
         start_installer(pyag, dry, popenFails, connects))

\* launch_installer. popenFails: subprocess.Popen raises; connects: pywinauto's
\* Application().connect finds the window within window_timeout.
launch_installer(dry, pyag, popenFails, connects) ==
  IF dry THEN [ret |-> "True", ev |-> <<>>, app |-> "None"]
  ELSE AfterL(minimize_all_windows(pyag, dry) \o take_screenshot(pyag, dry),
              start_installer(pyag, dry, popenFails, connects))

\* if self.click_with_win32gui(...): return True; else return
\* self.smart_find_and_click(...) -- n and s are what the two calls give
native_or_smart(pre, n, s) ==
  IF n.ok THEN [ret |-> "True", ev |-> pre \o n.ev]
  ELSE [ret |-> s.ret, ev |-> pre \o n.ev \o s.ev]

handle_welcome_screen(d, f, appv, pyag, kf, dry) ==
  IF dry THEN [ret |-> "True", ev |-> <<>>]
  ELSE native_or_smart(take_screenshot(pyag, dry) \o print_window_text(appv, pyag),
                       click_with_win32gui(S_Next, d),
                       smart_find_and_click(S_role_welcome, next_text_options, <<>>,
                                            f, pyag, kf, dry))

\* the body of handle_license_agreement: a and n are what click_with_win32gui gives
\* for "accept" and "Next", sa and sn what smart_find_and_click gives for them
license_steps(pre, a, n, sa, sn) ==
  IF a.ok /\ n.ok THEN [ret |-> "True", ev |-> pre \o a.ev \o <<Sleep(500)>> \o n.ev]
  ELSE IF sa.ret = "raise"
    THEN [ret |-> "raise",
          ev |-> pre \o a.ev \o (IF a.ok THEN <<Sleep(500)>> \o n.ev ELSE <<>>) \o sa.ev]
  ELSE [ret |-> sn.ret,
        ev |-> pre \o a.ev \o (IF a.ok THEN <<Sleep(500)>> \o n.ev ELSE <<>>) \o sa.ev
               \o (IF sa.ret = "True" THEN <<Sleep(500)>> ELSE <<>>) \o sn.ev]

handle_license_agreement(d, f, appv, pyag, kf, dry) ==
  IF dry THEN [ret |-> "True", ev |-> <<>>]
  ELSE license_steps(take_screenshot(pyag, dry) \o print_window_text(appv, pyag),
                     click_with_win32gui(S_accept, d),
                     click_with_win32gui(S_Next, d),
                     smart_find_and_click(S_role_accept, accept_text_options, <<>>,
                                          f, pyag, kf, dry),
                     smart_find_and_click(S_role_license, next_text_options, <<>>,
                                          f, pyag, kf, dry))

\* the smart field filling of handle_activation_information: the three
\* smart_fill_field calls, whose results are not looked at, then Next
smart_fills(s1, s2, s3, sn) ==
  IF s1.ret = "raise" THEN [ret |-> "raise", ev |-> s1.ev]
  ELSE IF s2.ret = "raise" THEN [ret |-> "raise", ev |-> s1.ev \o s2.ev]
  ELSE IF s3.ret = "raise" THEN [ret |-> "raise", ev |-> s1.ev \o s2.ev \o s3.ev]
  ELSE [ret |-> sn.ret, ev |-> s1.ev \o s2.ev \o s3.ev \o <<Sleep(1000)>> \o sn.ev]

\* an activation step that clicks Next whatever the fills gave
mut_activation_steps(pre, f1, f2, f3, n, smart) ==
  IF n.ok
    THEN [ret |-> "True",
          ev |-> pre \o f1.ev \o f2.ev \o f3.ev \o <<Sleep(500)>> \o n.ev]
    ELSE AfterR(pre \o f1.ev \o f2.ev \o f3.ev \o <<Sleep(500)>> \o n.ev, smart)

\* the body of handle_activation_information: f1, f2, f3 are what
\* fill_field_with_win32gui gives for the three fields, n what click_with_win32gui
\* gives for "Next", smart what the smart field filling gives
activation_steps(pre, f1, f2, f3, n, smart) ==
  IF f1.ok /\ f2.ok /\ f3.ok
    THEN IF n.ok
           THEN [ret |-> "True",
                 ev |-> pre \o f1.ev \o f2.ev \o f3.ev \o <<Sleep(500)>> \o n.ev]
           ELSE AfterR(pre \o f1.ev \o f2.ev \o f3.ev \o <<Sleep(500)>> \o n.ev, smart)
    ELSE AfterR(pre \o f1.ev \o f2.ev \o f3.ev, smart)

\* t: self.config['tag']
handle_activation_information(t, d, f, appv, pyag, kf, dry) ==
  IF dry THEN [ret |-> "True", ev |-> <<>>]
  ELSE activation_steps(
         take_screenshot(pyag, dry) \o print_window_text(appv, pyag),
         fill_field_with_win32gui(S_server, S_server_address, d, pyag),
         fill_field_with_win32gui(S_tag, t, d, pyag),
         fill_field_with_win32gui(S_license, S_license_key, d, pyag),
         click_with_win32gui(S_Next, d),
         smart_fills(
           smart_fill_field(S_Server_address, S_server_address, server_labels, <<>>,
                            f, pyag, dry),
           smart_fill_field(S_Tag, t, tag_labels, <<>>, f, pyag, dry),
           smart_fill_field(S_License_key, S_license_key, license_labels, <<>>,
                            f, pyag, dry),
           smart_find_and_click(S_role_activation, next_text_options, <<>>,
                                f, pyag, kf, dry)))

handle_installation(d, f, pyag, kf, dry) ==
  IF dry THEN [ret |-> "True", ev |-> <<>>]
  ELSE native_or_smart(take_screenshot(pyag, dry),
                       click_with_win32gui(S_Install, d),
                       smart_find_and_click(S_role_install, install_text_options, <<>>,
                                            f, pyag, kf, dry))

\* a verification whose process listing error is not caught
mut_verify_installation(dry, outcome) ==
  IF dry THEN [ret |-> "True", ev |-> <<>>]
  ELSE IF outcome = "no_psutil"
    THEN [ret |-> "True", ev |-> <<Ev("import_psutil_raised", <<>>, 0, 0)>>]
  ELSE IF outcome = "error"
    THEN [ret |-> "raise", ev |-> <<Ev("process_iter", <<outcome>>, 0, 0)>>]
  ELSE [ret |-> "True", ev |-> <<Ev("process_iter", <<outcome>>, 0, 0)>>]

\* verify_installation returns True on each of its paths. outcome: what the
\* process listing gave ("found", "not_found", "error", "no_psutil").
verify_installation(dry, outcome) ==
  IF dry THEN [ret |-> "True", ev |-> <<>>]
  ELSE IF outcome = "no_psutil"
    THEN [ret |-> "True", ev |-> <<Ev("import_psutil_raised", <<>>, 0, 0)>>]
  ELSE [ret |-> "True", ev |-> <<Ev("process_iter", <<outcome>>, 0, 0)>>]

(***************************************************************************)
(* The screens the model draws from                                        *)
(***************************************************************************)

\* resolver specification: an OCR frame has at most MaxItems entries
MaxItems == 2

\* resolver specification: a desktop has at most MaxWindows windows
MaxWindows == 1

\* resolver specification: a window has at most MaxControls child controls
MaxControls == 2

SeqsUpTo(S, n) ==
  UNION {[1..k -> S] : k \in 0..n}

Btn(text) ==
  Control("Button", text, TRUE, FALSE)

EditBox ==
  Control("Edit", <<>>, TRUE, FALSE)

\* the installer's window showing the given controls
Page(children) ==
  Window(S_TEHTRIS_EDR_Setup, TRUE, FALSE, children)

NoWindows ==
  Desk(FALSE, <<>>)

BlankFrame ==
  Frame(FALSE, <<>>)

\* the window trees a step of the wizard run may meet, numbered
DeskList ==
  << NoWindows,
     Desk(FALSE, <<Page(<<Control("Static", T_Welcome, TRUE, FALSE),
                          Btn(S_AmpNext_gt), Btn(T_Cancel)>>)>>),
     Desk(FALSE, <<Page(<<Btn(T_I_do_not_accept), Btn(T_I_accept), Btn(S_AmpNext_gt)>>)>>),
     Desk(FALSE, <<Page(<<Btn(T_I_do_not_accept), Btn(S_AmpNext_gt)>>)>>),
     Desk(FALSE, <<Page(<<EditBox, EditBox, EditBox, Btn(S_AmpNext_gt)>>)>>),
     Desk(FALSE, <<Page(<<EditBox, EditBox, Btn(S_AmpNext_gt)>>)>>),
     Desk(FALSE, <<Page(<<Control("Static", S_Server_address, TRUE, FALSE), EditBox,
                          Control("Edit", <<>>, FALSE, FALSE),
                          Control("RichEdit20W", <<>>, TRUE, FALSE),
                          Btn(S_AmpNext_gt), EditBox>>)>>),
     Desk(FALSE, <<Page(<<Btn(T_Install), Btn(T_Cancel)>>)>>),
     Desk(FALSE, <<Page(<<Btn(T_Close), Btn(T_Finish)>>)>>),
     Desk(FALSE, <<Page(<<Btn(T_Close)>>)>>),
     Desk(FALSE, <<Window(S_TEHTRIS_EDR_Setup, FALSE, FALSE, <<Btn(S_AmpNext_gt)>>)>>),
     Desk(TRUE, <<Window(T_Other, TRUE, FALSE, <<Btn(S_Next)>>),
                  Page(<<Btn(S_AmpNext_gt)>>)>>),
     Desk(FALSE, <<Page(<<Control("Button", S_AmpNext_gt, TRUE, TRUE)>>),
                   Window(S_TEHTRIS_EDR_Setup, TRUE, TRUE, <<Btn(S_AmpNext_gt)>>)>>),
     Desk(FALSE, <<Page(<<Btn(S_Suivant), Btn(T_Cancel)>>)>>),
     Desk(FALSE, <<Page(<<EditBox, Btn(S_AmpNext_gt)>>),
                   Page(<<EditBox, EditBox, EditBox, Btn(S_AmpNext_gt)>>)>>) >>

Desks ==
  {DeskList[i] : i \in DOMAIN DeskList}

\* the OCR data a step of the wizard run may meet, numbered
FrameList ==
  << BlankFrame,
     Frame(TRUE, <<>>),
     Frame(FALSE, <<OcrItem(S_Next_gt, 95, 100, 200, 80, 20)>>),
     Frame(FALSE, <<OcrItem(S_Next_gt, 80, 100, 200, 80, 20)>>),
     Frame(FALSE, <<OcrItem(S_Server_address, 90, 40, 60, 101, 15)>>),
     Frame(FALSE, <<OcrItem(S_I_accept, 92, 30, 300, 70, 14),
                    OcrItem(S_Install, 91, 400, 500, 60, 20)>>) >>

Frames ==
  {FrameList[j] : j \in DOMAIN FrameList}

\* resolver specification: the entries an OCR frame is made of
OcrItemPool ==
  {OcrItem(t, c, r[1], r[2], r[3], r[4]) :
     t \in {S_Next_gt, T_AmpNext, S_Finish},
     c \in {80, 90},
     r \in {<<100, 200, 80, 20>>, <<300, 400, 61, 21>>}}

GenFrames ==
  {Frame(FALSE, s) : s \in SeqsUpTo(OcrItemPool, MaxItems)} \cup {Frame(TRUE, <<>>)}

\* resolver specification: the controls a window is made of
ControlPool ==
  { Btn(S_AmpNext_gt),
    Btn(T_I_do_not_accept),
    Control("Static", T_Next_steps, TRUE, FALSE),
    Control("Button", S_Next, FALSE, FALSE) }

WindowPool ==
  {Window(t[1], t[2], FALSE, cs) :
     t \in {<<S_TEHTRIS_EDR_Setup, TRUE>>, <<S_TEHTRIS_EDR_Setup, FALSE>>,
            <<T_Other, TRUE>>},
     cs \in SeqsUpTo(ControlPool, MaxControls)}

GenDesks ==
  {Desk(FALSE, ws) : ws \in SeqsUpTo(WindowPool, MaxWindows)}

\* resolver specification: window trees in which a click message cannot be
\* posted to the first match, and in which only FindWindow finds the installer
NativeDesks ==
  { Desk(FALSE, <<Page(<<Control("Button", S_AmpNext_gt, TRUE, TRUE)>>),
                  Page(<<Btn(T_Cancel), Btn(S_AmpNext_gt)>>)>>),
    Desk(FALSE, <<Window(S_TEHTRIS_EDR_Setup, TRUE, TRUE, <<Btn(S_AmpNext_gt)>>),
                  Page(<<Btn(S_AmpNext_gt)>>)>>),
    Desk(TRUE, <<Window(S_TEHTRIS_EDR_Setup, FALSE, FALSE, <<Btn(S_AmpNext_gt)>>)>>) }

\* resolver specification: the requests
Query(fn, role, texts, fallback) ==
  [fn |-> fn, role |-> role, texts |-> texts, fallback |-> fallback]

SmartQueries ==
  { Query("smart_find_and_click", S_role_welcome, next_text_options, <<>>),
    Query("smart_find_and_click", S_role_welcome, <<S_Next>>, <<>>),
    Query("smart_find_and_click", S_role_welcome, <<T_AmpNext>>, <<>>),
    Query("smart_find_and_click", S_role_accept, accept_text_options, <<>>),
    Query("smart_find_and_click", S_role_install, install_text_options, <<>>),
    Query("smart_find_and_click", T_role_finish, <<S_Finish>>, <<>>),
    Query("smart_find_and_click", T_role_cancel, <<T_Cancel>>, <<>>),
    Query("smart_find_and_click", T_role_install_next, <<T_Cancel>>, <<>>),
    Query("smart_find_and_click", T_role_cancel, <<T_Cancel>>, <<<<640, 480>>>>) }

NativeQueries ==
  {Query("click_with_win32gui", <<>>, <<t>>, <<>>) : t \in {S_Next, T_AmpNext, S_accept}}

\* role is the field label, texts holds the value
FillQueries ==
  { Query("fill_field_with_win32gui", S_server, <<S_server_address>>, <<>>),
    Query("fill_field_with_win32gui", S_tag, <<S_XPG_QAT>>, <<>>),
    Query("fill_field_with_win32gui", S_license, <<S_license_key>>, <<>>),
    Query("fill_field_with_win32gui", S_Finish, <<S_XPG_QAT>>, <<>>) }

NoQuery ==
  Query("none", <<>>, <<>>, <<>>)

NoOut ==
  [ret |-> "none", ev |-> <<>>]

\* the values config['tag'] is given
Tags ==
  {S_XPG_QAT, T_XPG_TEST, T_QAT}

(***************************************************************************)
(* run_installation                                                        *)
(***************************************************************************)

\* the steps of run_installation, named after the wizard state they are the step of
Steps ==
  {"Launched", "Welcome", "License", "Activation", "Installing",
   "AwaitingCompletion", "Verified"}

next_state(s) ==
  CASE s = "Idle" -> "Launched"
    [] s = "Launched" -> "Welcome"
    [] s = "Welcome" -> "License"
    [] s = "License" -> "Activation"
    [] s = "Activation" -> "Installing"
    [] s = "Installing" -> "AwaitingCompletion"
    [] s = "AwaitingCompletion" -> "Verified"
    [] s = "Verified" -> "Done"

\* a controller that goes on whatever the step reported
mut_advance(s, r) ==
  next_state(s)

\* a controller without the except clause: only a False result ends the run
mut_advance_uncaught(s, r) ==
  IF r = "False" THEN "Failed" ELSE next_state(s)

\* if not self.<step>(): return False -- and the except clause for a raise
advance(s, r) ==
  IF r = "True" THEN next_state(s) ELSE "Failed"

\* if not self.verify_installation(): only a warning; then return True. An
\* exception would reach the except clause of run_installation.
advance_verified(s, r) ==
  IF r = "raise" THEN "Failed" ELSE next_state(s)

\* a cleanup that leaves the window binding as it is
mut_cleanup(appv) ==
  appv

\* cleanup, run by the finally clause when run_installation returns
cleanup(appv) ==
  "None"

\* time.sleep(0.5) after the steps that are followed by one
settle(s) ==
  IF s \in {"Launched", "Welcome", "License", "Activation"} THEN <<Sleep(500)>> ELSE <<>>

\* What is common to the end of every step: s is the step, r what it reported,
\* ev its log, to the state the controller goes to, a the window binding.
StepEnds(s, r, ev, to, a) ==
  /\ ret' = r
  /\ calls' = [calls EXCEPT ![s] = @ + 1]
  /\ state' = to
  /\ visited' = Append(visited, to)
  /\ log' = IF to \in {"Failed", "Done"} THEN ev ELSE ev \o settle(s)
  /\ result' = IF to = "Failed" THEN "False" ELSE IF to = "Done" THEN "True" ELSE "running"
  /\ app' = IF to \in {"Failed", "Done"} THEN cleanup(a) ELSE a

Validate ==
  /\ state = "Idle"
  /\ result = "running"
  /\ LET ok == validate_prerequisites(PYWINAUTO_AVAILABLE, msi_exists, tag)
         to == advance("Idle", IF ok THEN "True" ELSE "False")
     IN /\ ret' = IF ok THEN "True" ELSE "False"
        /\ state' = to
        /\ visited' = Append(visited, to)
        /\ result' = IF to = "Failed" THEN "False" ELSE "running"
        /\ app' = IF to = "Failed" THEN cleanup(app) ELSE app
  /\ UNCHANGED <<dry_run, msi_exists, tag, PYWINAUTO_AVAILABLE, PYAUTOGUI_AVAILABLE,
                 max_retries, exit_code, calls, desk, frame, keyFails, log, elapsed, waiting,
                 query, out, opFails, attempt, opCalls, slept, retryOut>>

Launch ==
  /\ state = "Launched"
  /\ \E popenFails \in BOOLEAN, connects \in BOOLEAN :
       LET r == launch_installer(dry_run, PYAUTOGUI_AVAILABLE, popenFails, connects)
       IN StepEnds("Launched", r.ret, r.ev, advance("Launched", r.ret), r.app)
  /\ UNCHANGED <<dry_run, msi_exists, tag, PYWINAUTO_AVAILABLE, PYAUTOGUI_AVAILABLE,
                 max_retries, exit_code, desk, frame, keyFails, elapsed, waiting,
                 query, out, opFails, attempt, opCalls, slept, retryOut>>

\* The handlers' results for every screen of DeskList and FrameList, worked out
\* once: [i, j, kf, appv, pyag] is the handler's result against DeskList[i] and
\* FrameList[j] with hotkey raising (kf), window binding appv and pyautogui pyag.
welcome_results ==
  [i \in DOMAIN DeskList, j \in DOMAIN FrameList, kf \in BOOLEAN,
   appv \in {"None", "bound"}, pyag \in BOOLEAN |->
     handle_welcome_screen(DeskList[i], FrameList[j], appv, pyag, kf, FALSE)]

license_results ==
  [i \in DOMAIN DeskList, j \in DOMAIN FrameList, kf \in BOOLEAN,
   appv \in {"None", "bound"}, pyag \in BOOLEAN |->
     handle_license_agreement(DeskList[i], FrameList[j], appv, pyag, kf, FALSE)]

activation_results ==
  [t \in Tags |->
     [i \in DOMAIN DeskList, j \in DOMAIN FrameList, kf \in BOOLEAN,
      appv \in {"None", "bound"}, pyag \in BOOLEAN |->
        handle_activation_information(t, DeskList[i], FrameList[j], appv, pyag, kf,
                                      FALSE)]]

installation_results ==
  [i \in DOMAIN DeskList, j \in DOMAIN FrameList, kf \in BOOLEAN,
   appv \in {"None", "bound"}, pyag \in BOOLEAN |->
     handle_installation(DeskList[i], FrameList[j], pyag, kf, FALSE)]

\* A step that looks at the screen. In a dry run it does not and reports in_dry_run;
\* otherwise it meets some window tree DeskList[i], some OCR data FrameList[j] and a
\* hotkey that works or raises (kf), and reports what results gives for them.
ScreenStep(s, in_dry_run, results) ==
  /\ \/ /\ dry_run
        /\ StepEnds(s, in_dry_run.ret, in_dry_run.ev, advance(s, in_dry_run.ret), app)
        /\ UNCHANGED <<desk, frame, keyFails>>
     \/ /\ ~dry_run
        /\ \E i \in DOMAIN DeskList, j \in DOMAIN FrameList, kf \in BOOLEAN :
             LET r == results[i, j, kf, app, PYAUTOGUI_AVAILABLE]
             IN /\ StepEnds(s, r.ret, r.ev, advance(s, r.ret), app)
                /\ desk' = DeskList[i]
                /\ frame' = FrameList[j]
                /\ keyFails' = kf
  /\ UNCHANGED <<dry_run, msi_exists, tag, PYWINAUTO_AVAILABLE, PYAUTOGUI_AVAILABLE,
                 max_retries, exit_code, elapsed, waiting,
                 query, out, opFails, attempt, opCalls, slept, retryOut>>

Welcome ==
  /\ state = "Welcome"
  /\ ScreenStep("Welcome",
                handle_welcome_screen(desk, frame, app, PYAUTOGUI_AVAILABLE, keyFails, TRUE),
                welcome_results)

License ==
  /\ state = "License"
  /\ ScreenStep("License",
                handle_license_agreement(desk, frame, app, PYAUTOGUI_AVAILABLE, keyFails,
                                         TRUE),
                license_results)

Activation ==
  /\ state = "Activation"
  /\ ScreenStep("Activation",
                handle_activation_information(tag, desk, frame, app, PYAUTOGUI_AVAILABLE,
                                              keyFails, TRUE),
                activation_results[tag])

Install ==
  /\ state = "Installing"
  /\ ScreenStep("Installing",
                handle_installation(desk, frame, PYAUTOGUI_AVAILABLE, keyFails, TRUE),
                installation_results)

(***************************************************************************)
(* wait_for_completion                                                     *)
(***************************************************************************)

\* completion_timeout = 180 (seconds)
completion_timeout == 180

\* a poll that finds no button lasts 2 s of sleep and up to MaxJitter s of probing
MaxJitter == 1

\* Entering wait_for_completion: a dry run returns True at once, otherwise
\* start_time is taken and the loop begins.
WaitStart ==
  /\ state = "AwaitingCompletion"
  /\ ~waiting
  /\ IF dry_run
       THEN /\ StepEnds("AwaitingCompletion", "True", <<>>,
                        advance("AwaitingCompletion", "True"), app)
            /\ UNCHANGED <<waiting, elapsed>>
       ELSE /\ waiting' = TRUE
            /\ elapsed' = 0
            /\ log' = <<>>
            /\ UNCHANGED <<state, result, ret, visited, calls, app>>
  /\ UNCHANGED <<dry_run, msi_exists, tag, PYWINAUTO_AVAILABLE, PYAUTOGUI_AVAILABLE,
                 max_retries, exit_code, desk, frame, keyFails,
                 query, out, opFails, attempt, opCalls, slept, retryOut>>

\* polls that try Close before Finish
mut_poll_results ==
  [i \in DOMAIN DeskList |->
     [finish |-> click_with_win32gui(S_Close, DeskList[i]),
      close |-> click_with_win32gui(S_Finish, DeskList[i])]]

\* The two clicks of a poll against every window tree of DeskList, worked out once.
poll_results ==
  [i \in DOMAIN DeskList |->
     [finish |-> click_with_win32gui(S_Finish, DeskList[i]),
      close |-> click_with_win32gui(S_Close, DeskList[i])]]

\* One iteration of the loop, against the window tree DeskList[i] it meets: Finish, then
\* Close, then a sleep of 2 s. A poll reads no OCR data and sends no hotkey.
WaitPoll ==
  /\ state = "AwaitingCompletion"
  /\ waiting
  /\ elapsed < completion_timeout
  /\ \E i \in DOMAIN DeskList, j \in 0..MaxJitter :
       LET shot == take_screenshot(PYAUTOGUI_AVAILABLE, dry_run)
           fin == poll_results[i].finish
           clo == poll_results[i].close
       IN /\ desk' = DeskList[i]
          /\ frame' = BlankFrame
          /\ keyFails' = FALSE
          /\ IF fin.ok
               THEN /\ StepEnds("AwaitingCompletion", "True", shot \o fin.ev,
                                advance("AwaitingCompletion", "True"), app)
                    /\ waiting' = FALSE
                    /\ UNCHANGED elapsed
             ELSE IF clo.ok
               THEN /\ StepEnds("AwaitingCompletion", "True", shot \o fin.ev \o clo.ev,
                                advance("AwaitingCompletion", "True"), app)
                    /\ waiting' = FALSE
                    /\ UNCHANGED elapsed
             ELSE /\ log' = shot \o fin.ev \o clo.ev \o <<Sleep(2000)>>
                  /\ elapsed' = elapsed + 2 + j
                  /\ UNCHANGED <<state, result, ret, visited, calls, app, waiting>>
  /\ UNCHANGED <<dry_run, msi_exists, tag, PYWINAUTO_AVAILABLE, PYAUTOGUI_AVAILABLE,
                 max_retries, exit_code, query, out, opFails, attempt, opCalls, slept, retryOut>>

\* a final attempt that takes the keyboard for granted
mut_final_attempt(pyag, kf) ==
  [ret |-> "True", ev |-> <<Ev("hotkey", <<"alt", "f">>, 0, 0), Sleep(1000)>>]

\* the final attempt after the loop: kf says whether pyautogui.hotkey raises
final_attempt(pyag, kf) ==
  IF pyag
    THEN IF kf
           THEN [ret |-> "False", ev |-> <<Ev("hotkey_raised", <<"alt", "f">>, 0, 0)>>]
           ELSE [ret |-> "True",
                 ev |-> <<Ev("hotkey", <<"alt", "f">>, 0, 0), Sleep(1000)>>]
    ELSE [ret |-> "False", ev |-> <<>>]

\* The loop condition fails: the timeout is reached.
WaitTimeout ==
  /\ state = "AwaitingCompletion"
  /\ waiting
  /\ ~(elapsed < completion_timeout)
  /\ \E kf \in BOOLEAN :
       LET r == final_attempt(PYAUTOGUI_AVAILABLE, kf)
       IN /\ StepEnds("AwaitingCompletion", r.ret, r.ev,
                      advance("AwaitingCompletion", r.ret), app)
          /\ keyFails' = kf
  /\ waiting' = FALSE
  /\ UNCHANGED <<dry_run, msi_exists, tag, PYWINAUTO_AVAILABLE, PYAUTOGUI_AVAILABLE,
                 max_retries, exit_code, desk, frame, elapsed,
                 query, out, opFails, attempt, opCalls, slept, retryOut>>

Verify ==
  /\ state = "Verified"
  /\ \E outcome \in {"found", "not_found", "error", "no_psutil"} :
       LET r == verify_installation(dry_run, outcome)
       IN StepEnds("Verified", r.ret, r.ev, advance_verified("Verified", r.ret), app)
  /\ UNCHANGED <<dry_run, msi_exists, tag, PYWINAUTO_AVAILABLE, PYAUTOGUI_AVAILABLE,
                 max_retries, exit_code, desk, frame, keyFails, elapsed, waiting,
                 query, out, opFails, attempt, opCalls, slept, retryOut>>

(***************************************************************************)
(* main                                                                    *)
(***************************************************************************)

\* a main that reports success whatever the run gave
mut_main_exit(success) ==
  0

\* sys.exit(0 if success else 1)
main_exit(success) ==
  IF success THEN 0 ELSE 1

\* run_installation has returned: main ends the process
Exit ==
  /\ result # "running"
  /\ exit_code = -1
  /\ exit_code' = main_exit(result = "True")
  /\ UNCHANGED <<dry_run, msi_exists, tag, PYWINAUTO_AVAILABLE, PYAUTOGUI_AVAILABLE,
                 max_retries, state, result, ret, visited, calls, app, desk, frame,
                 keyFails, log, waiting, elapsed, query, out, opFails, attempt, opCalls,
                 slept, retryOut>>

(***************************************************************************)
(* The resolver applied to one request                                     *)
(***************************************************************************)

ResolveSmart ==
  /\ query.fn = "smart_find_and_click"
  /\ out = NoOut
  /\ out' = smart_find_and_click(query.role, query.texts, query.fallback, frame,
                                 PYAUTOGUI_AVAILABLE, keyFails, dry_run)
  /\ UNCHANGED <<dry_run, msi_exists, tag, PYWINAUTO_AVAILABLE, PYAUTOGUI_AVAILABLE,
                 max_retries, exit_code, state, result, ret, visited, calls, app, desk, frame,
                 keyFails, log, waiting, elapsed, query, opFails, attempt, opCalls,
                 slept, retryOut>>

ResolveNative ==
  /\ query.fn = "click_with_win32gui"
  /\ out = NoOut
  /\ LET r == click_with_win32gui(query.texts[1], desk)
     IN out' = [ret |-> IF r.ok THEN "True" ELSE "False", ev |-> r.ev]
  /\ UNCHANGED <<dry_run, msi_exists, tag, PYWINAUTO_AVAILABLE, PYAUTOGUI_AVAILABLE,
                 max_retries, exit_code, state, result, ret, visited, calls, app, desk, frame,
                 keyFails, log, waiting, elapsed, query, opFails, attempt, opCalls,
                 slept, retryOut>>

ResolveFill ==
  /\ query.fn = "fill_field_with_win32gui"
  /\ out = NoOut
  /\ LET r == fill_field_with_win32gui(query.role, query.texts[1], desk,
                                       PYAUTOGUI_AVAILABLE)
     IN out' = [ret |-> IF r.ok THEN "True" ELSE "False", ev |-> r.ev]
  /\ UNCHANGED <<dry_run, msi_exists, tag, PYWINAUTO_AVAILABLE, PYAUTOGUI_AVAILABLE,
                 max_retries, exit_code, state, result, ret, visited, calls, app, desk, frame,
                 keyFails, log, waiting, elapsed, query, opFails, attempt, opCalls,
                 slept, retryOut>>

(***************************************************************************)
(* Specifications                                                          *)
(***************************************************************************)

\* the controller before run_installation
RunIdle ==
  /\ state = "Idle"
  /\ result = "running"
  /\ ret = "none"
  /\ visited = <<>>
  /\ calls = [s \in Steps |-> 0]
  /\ app = "None"
  /\ log = <<>>
  /\ waiting = FALSE
  /\ elapsed = 0
  /\ exit_code = -1

RetryIdle ==
  /\ opFails = <<>>
  /\ attempt = 0
  /\ opCalls = 0
  /\ slept = <<>>
  /\ retryOut = "idle"

\* The wizard run: an installer object after __init__, in one of the environments.
Init ==
  /\ dry_run \in BOOLEAN
  /\ msi_exists \in BOOLEAN
  /\ tag \in Tags
  /\ PYWINAUTO_AVAILABLE \in BOOLEAN
  /\ PYAUTOGUI_AVAILABLE \in BOOLEAN
  /\ max_retries = init_max_retries
  /\ RunIdle
  /\ desk = NoWindows
  /\ frame = BlankFrame
  /\ keyFails = FALSE
  /\ query = NoQuery
  /\ out = NoOut
  /\ RetryIdle

Next ==
  \/ Validate
  \/ Launch
  \/ Welcome
  \/ License
  \/ Activation
  \/ Install
  \/ WaitStart
  \/ WaitPoll
  \/ WaitTimeout
  \/ Verify
  \/ Exit

Spec ==
  Init /\ [][Next]_vars

\* run_installation runs on until it returns: a step that can be taken is taken
SpecLive ==
  Spec /\ WF_vars(Next)

\* The resolver: one request against one screen.
InitResolve ==
  /\ msi_exists = TRUE
  /\ tag = S_XPG_QAT
  /\ PYWINAUTO_AVAILABLE = TRUE
  /\ max_retries = init_max_retries
  /\ RunIdle
  /\ out = NoOut
  /\ RetryIdle
  /\ \/ /\ query \in SmartQueries
        /\ frame \in GenFrames
        /\ desk = NoWindows
        /\ PYAUTOGUI_AVAILABLE \in BOOLEAN
        /\ keyFails \in BOOLEAN
        /\ dry_run \in BOOLEAN
     \/ /\ query \in NativeQueries
        /\ desk \in GenDesks \cup Desks \cup NativeDesks
        /\ frame = BlankFrame
        /\ PYAUTOGUI_AVAILABLE = TRUE
        /\ keyFails = FALSE
        /\ dry_run = FALSE
     \/ /\ query \in FillQueries
        /\ desk \in Desks
        /\ frame = BlankFrame
        /\ PYAUTOGUI_AVAILABLE \in BOOLEAN
        /\ keyFails = FALSE
        /\ dry_run = FALSE

NextResolve ==
  \/ ResolveSmart
  \/ ResolveNative
  \/ ResolveFill

SpecResolve ==
  InitResolve /\ [][NextResolve]_vars

\* The retry wrapper: max_retries attempts of an operation whose calls raise as
\* opFails says.
InitRetry ==
  /\ dry_run = FALSE
  /\ msi_exists = TRUE
  /\ tag = S_XPG_QAT
  /\ PYWINAUTO_AVAILABLE = TRUE
  /\ PYAUTOGUI_AVAILABLE = TRUE
  /\ RunIdle
  /\ desk = NoWindows
  /\ frame = BlankFrame
  /\ keyFails = FALSE
  /\ query = NoQuery
  /\ out = NoOut
  /\ max_retries \in 0..MaxAttempts
  /\ opFails \in [1..(MaxAttempts + 1) -> BOOLEAN]
  /\ attempt = 0
  /\ opCalls = 0
  /\ slept = <<>>
  /\ retryOut = "running"

NextRetry ==
  \/ RetryAttempt
  \/ RetryFallsThrough

SpecRetry ==
  InitRetry /\ [][NextRetry]_vars

(***************************************************************************)
(* Properties                                                              *)
(***************************************************************************)

\* the entries of a log that probe or act: all but the sleeps
Acts(l) ==
  SelectSeq(l, LAMBDA e : e.k # "sleep")

\* the entries of a log of the given kinds
OfKind(l, kinds) ==
  SelectSeq(l, LAMBDA e : e.k \in kinds)

\* the states of a fully successful run, in order
SuccessPath ==
  <<"Launched", "Welcome", "License", "Activation", "Installing",
    "AwaitingCompletion", "Verified", "Done">>

\* C1: run_installation enters the next wizard state only when the step of the
\* current state reported success, and goes to Failed otherwise; a run that
\* succeeds has visited exactly Launched, Welcome, License, Activation,
\* Installing, AwaitingCompletion, Verified, Done in that order, with every step
\* handler invoked exactly once.
C1_StepOrder ==
  [][/\ state' # state =>
          \/ ret' = "True" /\ state' = next_state(state) /\ state # "Failed"
          \/ ret' # "True" /\ state' = "Failed"
     /\ result' = "True" =>
          /\ visited' = SuccessPath
          /\ \A s \in Steps : calls'[s] = 1]_vars

\* a run on a real screen that succeeded, after polling at least once
C1_Witness ==
  /\ ~dry_run
  /\ result = "True"
  /\ state = "Done"
  /\ elapsed > 0

\* C2: in a dry run no step of run_installation probes or acts: the log of every
\* step holds no process launch, screenshot, window enumeration, pointer click,
\* keystroke or control message (only the sleeps between the steps), and no
\* window is bound.
C2_DryRunNoActuation ==
  dry_run => Acts(log) = <<>> /\ app = "None" /\ ~waiting

\* a dry run that went through every step
C2_Witness ==
  /\ dry_run
  /\ state = "Done"
  /\ \A s \in Steps : calls[s] = 1

\* C3 as stated: a dry run that has ended has ended in success, whatever the
\* installer path and the environment.
C3_DryRunAlwaysDone ==
  (dry_run /\ result # "running") => result = "True"

\* C3 amended: a dry run ends in success exactly when the prerequisites hold
\* (pywinauto imported, the MSI file present, the tag starting with XPG_), and
\* then it does reach Done.
C3_DryRunDoneIffPrerequisites ==
  /\ [](dry_run /\ result # "running" =>
          (result = "True" <=>
             (PYWINAUTO_AVAILABLE /\ msi_exists /\ StartsWith(tag, S_XPG_))))
  /\ (dry_run /\ PYWINAUTO_AVAILABLE /\ msi_exists /\ StartsWith(tag, S_XPG_))
       ~> (state = "Done")

\* a dry run with the prerequisites that is done
C3_Witness ==
  /\ dry_run
  /\ PYWINAUTO_AVAILABLE /\ msi_exists /\ StartsWith(tag, S_XPG_)
  /\ result = "True"

\* C4 as stated: _retry_operation with max_retries = n has called the operation
\* at most n times and at least once when it ends, for every n from 0 on.
C4_AtMostNAtLeastOne ==
  retryOut # "running" => opCalls <= max_retries /\ opCalls >= 1

\* C4 amended: the operation is never called more than n times, and when
\* _retry_operation ends it has been called at least once provided n >= 1; with
\* n = 0 it is not called at all.
C4_AtMostNAtLeastOneIfPositive ==
  /\ opCalls <= max_retries
  /\ retryOut # "running" =>
       /\ max_retries >= 1 => opCalls >= 1
       /\ max_retries = 0 => opCalls = 0 /\ retryOut = "None"

\* every attempt of a budget of two or more failed
C4_Witness ==
  /\ retryOut = "raised"
  /\ max_retries >= 2
  /\ opCalls = max_retries

\* C5: the run is in Failed after a wizard step only when that step has been
\* attempted max_retries times.
C5_FailedOnlyAfterRetries ==
  (state = "Failed" /\ Len(visited) >= 2) =>
     calls[visited[Len(visited) - 1]] >= max_retries

\* the welcome step has just ended on a real screen
AfterWelcome ==
  /\ ~dry_run
  /\ calls["Welcome"] = 1
  /\ calls["License"] = 0

\* the OCR data names one of the given texts, in either ampersand form
OcrNames(text_options, f) ==
  \E i \in DOMAIN text_options : \E j \in {1, 2} :
    find_text_on_screen(search_texts(text_options[i])[j], f, TRUE, FALSE) # None

\* C6: the welcome step's Next query is answered by the first strategy able to: a
\* native button when the window tree has one, else an OCR match when the OCR
\* data names the button, else the keyboard shortcut; the step then succeeds and
\* no later strategy has acted.
C6_FirstCapableStrategy ==
  AfterWelcome =>
    IF click_with_win32gui(S_Next, desk).ok
      THEN /\ ret = "True"
           /\ OfKind(log, {"click", "click_coordinates_raised", "hotkey",
                           "hotkey_raised"}) = <<>>
    ELSE IF PYAUTOGUI_AVAILABLE /\ OcrNames(next_text_options, frame)
      THEN /\ ret = "True"
           /\ Len(OfKind(log, {"click"})) = 1
           /\ OfKind(log, {"hotkey", "hotkey_raised"}) = <<>>
    ELSE IF PYAUTOGUI_AVAILABLE /\ ~keyFails
      THEN /\ ret = "True"
           /\ Len(OfKind(log, {"hotkey"})) = 1
    ELSE TRUE

\* a request to smart_find_and_click has been answered
Answered ==
  /\ query.fn = "smart_find_and_click"
  /\ out # NoOut

\* C7: a failure inside the OCR strategy or at a fallback coordinate does not
\* leave smart_find_and_click as an error: with a keyboard that does not fail,
\* the call returns True or False.
C7_StrategyFailureSwallowed ==
  (Answered /\ ~keyFails) => out.ret \in {"True", "False"}

\* the role names one of the four keyboard shortcuts
HasShortcut(role) ==
  \E kw \in {S_kw_next, S_kw_accept, S_kw_install, S_kw_finish} :
    Contains(kw, Lower(role))

\* no search text of the request is found in the OCR data
NothingMatches ==
  ~(PYAUTOGUI_AVAILABLE /\ OcrNames(query.texts, frame))

Positions(l) ==
  [i \in DOMAIN OfKind(l, {"click", "click_coordinates_raised"}) |->
     << OfKind(l, {"click", "click_coordinates_raised"})[i].n,
        OfKind(l, {"click", "click_coordinates_raised"})[i].m >>]

\* C9: against the same screen a request for "Next" and a request for "&Next"
\* select the same thing: the native matcher posts the click to the same control
\* and the OCR search of smart_find_and_click picks the same position.
C9_AmpersandSameMatch ==
  /\ (query.fn = "click_with_win32gui" /\ query.texts = <<S_Next>> /\ out # NoOut) =>
        out.ev = click_with_win32gui(T_AmpNext, desk).ev
  /\ (Answered /\ query.texts = <<S_Next>>) =>
        Positions(out.ev)
        = Positions(smart_find_and_click(query.role, <<T_AmpNext>>, query.fallback,
                                         frame, PYAUTOGUI_AVAILABLE, keyFails,
                                         dry_run).ev)

\* wait_for_completion has just ended by its timeout
TimedOut ==
  /\ ~dry_run
  /\ calls["AwaitingCompletion"] = 1
  /\ calls["Verified"] = 0
  /\ elapsed >= completion_timeout

\* C10 as stated: when Finish and Close never resolve within the 180 s,
\* wait_for_completion ends with exactly one keyboard shortcut and returns True.
C10_TimeoutSoftSuccess ==
  TimedOut =>
    /\ ret = "True"
    /\ Len(OfKind(log, {"hotkey", "hotkey_raised"})) = 1

\* C10 amended: when Finish and Close never resolve within the 180 s,
\* wait_for_completion sends Alt+F exactly once and returns True if pyautogui is
\* available and the hotkey does not raise; it returns False after that one
\* attempt if the hotkey raises, and False without any keyboard attempt if
\* pyautogui is not available. No poll has sent a key before.
C10_TimeoutSoftSuccessWithKeyboard ==
  /\ (state = "AwaitingCompletion" /\ waiting) =>
        OfKind(log, {"hotkey", "hotkey_raised"}) = <<>>
  /\ TimedOut =>
       /\ Len(OfKind(log, {"hotkey", "hotkey_raised"}))
            = IF PYAUTOGUI_AVAILABLE THEN 1 ELSE 0
       /\ ret = IF PYAUTOGUI_AVAILABLE /\ ~keyFails THEN "True" ELSE "False"
       /\ state = IF PYAUTOGUI_AVAILABLE /\ ~keyFails THEN "Verified" ELSE "Failed"

\* the timeout was reached and the one Alt+F gave the soft success
C10_Witness ==
  /\ TimedOut
  /\ PYAUTOGUI_AVAILABLE
  /\ state = "Verified"
  /\ log[1].k = "hotkey"

\* the outcomes of the process listing that do not confirm the installation
Inconclusive ==
  { <<Ev("process_iter", <<"not_found">>, 0, 0)>>,
    <<Ev("process_iter", <<"error">>, 0, 0)>>,
    <<Ev("import_psutil_raised", <<>>, 0, 0)>> }

\* C11: the Verified step is advisory: whatever verify_installation met (agent
\* found, not found, listing error, psutil missing), a run in Verified goes to
\* Done with success, never to Failed.
C11_VerifiedAdvisory ==
  [][state = "Verified" =>
       /\ state' = "Done"
       /\ result' = "True"
       /\ calls'["Verified"] = 1]_vars

\* a run that is done although the verification was inconclusive
C11_Witness ==
  /\ ~dry_run
  /\ state = "Done"
  /\ log \in Inconclusive

\* launch_installer has just ended on a real screen
AfterLaunch ==
  /\ ~dry_run
  /\ calls["Launched"] = 1
  /\ calls["Welcome"] = 0

\* C12: when the installer's window cannot be bound within the wait,
\* launch_installer still reports success and the run goes on to Welcome with no
\* window binding.
C12_BindFailureProceeds ==
  (AfterLaunch /\ OfKind(log, {"connect_raised"}) # <<>>) =>
     /\ ret = "True"
     /\ state = "Welcome"
     /\ result = "running"
     /\ app = "None"

\* the installer was started and its window could not be bound
C12_Witness ==
  /\ AfterLaunch
  /\ OfKind(log, {"Popen"}) # <<>>
  /\ OfKind(log, {"connect_raised"}) # <<>>
  /\ state = "Welcome"

\* handle_license_agreement has just ended on a real screen
AfterLicense ==
  /\ ~dry_run
  /\ calls["License"] = 1
  /\ calls["Activation"] = 0

\* the positions of a log where a control of the given text is activated: a click
\* message posted to a button naming it, or the Alt+key shortcut
Activations(l, text, key) ==
  {i \in DOMAIN l :
     \/ l[i].k = "PostMessage" /\ Contains(Lower(text), Lower(StripAmp(l[i].s)))
     \/ l[i].k = "click" /\ Contains(Lower(text), Lower(StripAmp(l[i].s)))
     \/ l[i].k = "hotkey" /\ l[i].s = <<"alt", key>>}

\* C13: the License step succeeds whenever a Next control can be resolved and
\* activated, whether or not an accept control was found, and an accept
\* activation always comes before the Next activation. Stated for the runs
\* without pyautogui, where the native handles are the only strategy and no
\* call of click_coordinates is involved.
C13_AcceptOptionalThenNext ==
  (AfterLicense /\ ~PYAUTOGUI_AVAILABLE) =>
    /\ click_with_win32gui(S_Next, desk).ok => ret = "True"
    /\ \A i \in Activations(log, S_accept, "a") :
         \A j \in Activations(log, S_Next, "n") : i < j

\* handle_activation_information has just ended on a real screen
AfterActivation ==
  /\ ~dry_run
  /\ calls["Activation"] = 1
  /\ calls["Installing"] = 0

\* the positions of a log where a text is set in a control
Sets(l) ==
  {i \in DOMAIN l : l[i].k = "WM_SETTEXT" /\ l[i].s # <<>>}

\* the installer window of the screen met shows three input controls
ThreeHandles ==
  /\ tehtris_windows(desk) # <<>>
  /\ \A k \in DOMAIN tehtris_windows(desk) :
       /\ ~desk.wins[tehtris_windows(desk)[k]].enumFails
       /\ Len(edit_controls(desk.wins[tehtris_windows(desk)[k]])) >= 3

\* the text set at position i of the log is value, in the input control of index
\* idx (from 0) of its window
SetsField(l, i, value, idx) ==
  /\ l[i].s = value
  /\ l[i].m = edit_controls(desk.wins[l[i].n])[idx + 1]

\* C14: in the Activation step against three input handles the server address,
\* the tag and the license key are set, in this order, in the input controls of
\* index 0, 1 and 2, and Next is activated only after the three fills.
C14_FillOrderThenNext ==
  (AfterActivation /\ ThreeHandles) =>
     /\ Cardinality(Sets(log)) = 3
     /\ \E i1, i2, i3 \in Sets(log) :
          /\ i1 < i2 /\ i2 < i3
          /\ SetsField(log, i1, S_server_address, 0)
          /\ SetsField(log, i2, tag, 1)
          /\ SetsField(log, i3, S_license_key, 2)
          /\ log[i3 + 3].k = "WM_KEYUP_TAB"
          /\ \A j \in Activations(log, S_Next, "n") : j > i3 + 3

\* three fills, then the click on Next
C14_Witness ==
  /\ AfterActivation
  /\ ThreeHandles
  /\ state = "Installing"
  /\ OfKind(log, {"PostMessage"}) # <<>>

\* C15: in the Activation step the three native fills are always attempted, a
\* failed one not stopping the others; when one of them failed the native click
\* on Next is not performed, and Next is reached only by the fallback path.
C15_FillFailureBlocksNativeNext ==
  AfterActivation =>
    /\ Len(OfKind(log, {"EnumWindows"})) >= 4
    /\ Cardinality(Sets(log)) < 3 =>
         /\ Len(OfKind(log, {"EnumWindows"})) = 4
         /\ OfKind(log, {"PostMessage", "PostMessage_raised"}) = <<>>
         /\ ret = "True" => OfKind(log, {"hotkey", "click"}) # <<>>

\* the license field could not be filled and Next went by the keyboard
C15_Witness ==
  /\ AfterActivation
  /\ Cardinality(Sets(log)) = 2
  /\ click_with_win32gui(S_Next, desk).ok
  /\ ret = "True"

\* the steps from Launched to AwaitingCompletion
FatalSteps ==
  Steps \ {"Verified"}

\* the wizard states a sequence of visited states holds
Entered(v) ==
  {v[i] : i \in DOMAIN v}

\* C16: when a step from Launched to AwaitingCompletion reports failure the run
\* goes to Failed and run_installation returns False with no later step handler
\* invoked; the process ends with exit code 0 exactly when run_installation
\* returned True, and with a non-zero code otherwise.
C16_FailurePropagates ==
  [][/\ (state \in FatalSteps /\ calls' # calls /\ ret' # "True") =>
          /\ state' = "Failed"
          /\ result' = "False"
     /\ state = "Failed" =>
          /\ calls' = calls
          /\ result' = "False"
          /\ \A s \in Steps : calls[s] = IF s \in Entered(visited) THEN 1 ELSE 0
     /\ exit_code' # -1 =>
          /\ result' # "running"
          /\ exit_code' = 0 <=> result' = "True"
          /\ result' = "False" => exit_code' > 0]_vars

\* a run that failed in a step and ended the process with a non-zero code
C16_Witness ==
  /\ state = "Failed"
  /\ Len(visited) >= 3
  /\ exit_code = 1

\* C17: when the prerequisites do not hold (tag without the prefix XPG_, MSI file
\* missing, or pywinauto missing) the run ends in failure at once: no step
\* handler is invoked, so the installer is not launched and nothing is probed or
\* acted on, and the process does not end with code 0.
C17_InvalidEndsBeforeLaunch ==
  ~(PYWINAUTO_AVAILABLE /\ msi_exists /\ StartsWith(tag, S_XPG_)) =>
     /\ state \in {"Idle", "Failed"}
     /\ \A s \in Steps : calls[s] = 0
     /\ log = <<>>
     /\ app = "None"
     /\ state = "Failed" => result = "False" /\ visited = <<"Failed">>
     /\ exit_code # 0

\* a run with a tag without the prefix, and nothing else missing, that has failed
C17_Witness ==
  /\ PYWINAUTO_AVAILABLE
  /\ msi_exists
  /\ ~StartsWith(tag, S_XPG_)
  /\ ~dry_run
  /\ state = "Failed"
  /\ exit_code = 1

Filled ==
  /\ query.fn = "fill_field_with_win32gui"
  /\ out # NoOut

\* the messages among the events l
Messages(l) ==
  OfKind(l, {"WM_SETTEXT", "WM_KEYDOWN_TAB", "WM_KEYUP_TAB"})

\* C19: when fill_field_with_win32gui returns True it has sent to one control,
\* in this order and as its last steps, WM_SETTEXT with an empty text,
\* WM_SETTEXT with the value, and the Tab key down and up; it has sent no other
\* message.
C19_ClearSetTab ==
  (Filled /\ out.ret = "True") =>
     /\ Len(out.ev) >= 6
     /\ [i \in 1..6 |-> out.ev[Len(out.ev) - 6 + i].k]
          = <<"WM_SETTEXT", "sleep", "WM_SETTEXT", "sleep",
              "WM_KEYDOWN_TAB", "WM_KEYUP_TAB">>
     /\ Messages(out.ev)
          = << Ev("WM_SETTEXT", <<>>, out.ev[Len(out.ev)].n, out.ev[Len(out.ev)].m),
               Ev("WM_SETTEXT", query.texts[1], out.ev[Len(out.ev)].n,
                  out.ev[Len(out.ev)].m),
               Ev("WM_KEYDOWN_TAB", <<>>, out.ev[Len(out.ev)].n, out.ev[Len(out.ev)].m),
               Ev("WM_KEYUP_TAB", <<>>, out.ev[Len(out.ev)].n, out.ev[Len(out.ev)].m) >>

\* the tag was entered in the second edit control of a window that has three
C19_Witness ==
  /\ Filled
  /\ out.ret = "True"
  /\ query.role = S_tag
  /\ desk = DeskList[5]
  /\ Len(Messages(out.ev)) = 4
  /\ out.ev[Len(out.ev)].m = 2

\* the event is the last of an actuation: a click message posted to a handle,
\* the Tab key that ends a native text entry, typed text, a click on
\* coordinates, or an Alt shortcut
Actuation(e) ==
  \/ e.k \in {"PostMessage", "WM_KEYUP_TAB", "write", "click"}
  \/ e.k = "hotkey" /\ e.s[1] = "alt"

\* handle_installation has returned True in a real run and wait_for_completion,
\* whose loop starts with a screenshot and EnumWindows, is called next
BeforeFirstPoll ==
  /\ state = "AwaitingCompletion"
  /\ ~waiting
  /\ ~dry_run
  /\ calls["Installing"] = 1

\* C20 as stated: a settle delay follows every actuation before the next probe,
\* so what handle_installation did last before the first completion poll is
\* not an actuation.
C20_SettleBeforeFirstPoll ==
  BeforeFirstPoll => ~Actuation(log[Len(log)])

\* the events from position j to position i - 1 of l are window enumerations of
\* one call of click_with_win32gui or fill_field_with_win32gui, begun at j
EnumeratedFrom(l, j, i) ==
  /\ l[j].k = "EnumWindows"
  /\ \A m \in (j + 1)..(i - 1) :
       l[m].k \in {"FindWindow", "EnumChildWindows", "PostMessage_raised",
                   "GetWindowRect", "pointer_click", "sleep"}

\* the handle of event e is a visible control of the window tree d, of one of
\* the classes cls
HandleOf(e, d, cls) ==
  /\ e.n \in 1..Len(d.wins)
  /\ e.m \in 1..Len(d.wins[e.n].children)
  /\ d.wins[e.n].children[e.m].visible
  /\ d.wins[e.n].children[e.m].cls \in cls

\* C21: every click message is posted to a button handle that the same call of
\* click_with_win32gui got from its own EnumWindows and EnumChildWindows, every
\* text entry starts at an edit handle that the same call of
\* fill_field_with_win32gui enumerated, and every call of click_coordinates with
\* a search text has the centre of an entry of the screenshot taken just before
\* it, or the field position below it; all of them belong to the screen the
\* step met.
C21_ResolvedWithinCall ==
  \A i \in DOMAIN log :
    /\ log[i].k = "PostMessage" =>
         /\ i > 2
         /\ log[i - 1] = Ev("EnumChildWindows", <<>>, log[i].n, 0)
         /\ \E j \in 1..(i - 1) : EnumeratedFrom(log, j, i)
         /\ HandleOf(log[i], desk, {"Button"})
    /\ (log[i].k = "WM_SETTEXT" /\ log[i].s = <<>>) =>
         /\ i > 3
         /\ \E j \in 1..(i - 1) :
              /\ EnumeratedFrom(log, j, i)
              /\ \E m \in j..(i - 1) : log[m] = Ev("EnumChildWindows", <<>>, log[i].n, 0)
         /\ HandleOf(log[i], desk, EditClasses)
    /\ (log[i].k \in {"click", "click_coordinates_raised"} /\ log[i].s # <<>>) =>
         /\ i > 1
         /\ log[i - 1] = Ev("screenshot", log[i].s, 0, 0)
         /\ \E t \in DOMAIN frame.items :
              /\ text_matches(log[i].s, frame.items[t])
              /\ <<log[i].n, log[i].m>> \in {item_center(frame.items[t]),
                                             field_position(item_center(frame.items[t]))}

\* the License step posted two click messages, accept and Next, each after an
\* enumeration of its own
C21_Witness ==
  /\ AfterLicense
  /\ Len(OfKind(log, {"PostMessage"})) = 2
  /\ Len(OfKind(log, {"EnumWindows"})) >= 3

\* the Welcome step sent its keyboard shortcut while the desktop showed no window
\* at all: no control was there to react to it
ShortcutIntoVoid ==
  /\ AfterWelcome
  /\ desk = NoWindows
  /\ OfKind(log, {"hotkey"}) # <<>>

\* C22 as stated: a step whose action was dispatched but had no observable
\* effect does not report success.
C22_RejectedIsNotSuccess ==
  ShortcutIntoVoid => ret # "True"

\* the window tree d shows, in a window of the installer, a button labelled text
ShowsButton(d, text) ==
  \E h \in DOMAIN d.wins :
    /\ is_tehtris_window(d.wins[h])
    /\ ~d.wins[h].enumFails
    /\ \E b \in DOMAIN d.wins[h].children :
         d.wins[h].children[b] = Btn(text)

\* C23 as stated, where only the native search can act: when the Welcome screen
\* shows a button labelled "Next", "&Next >" or "Suivant", handle_welcome_screen
\* posts a click message to a button and reports success.
C23_NextVariantsActivate ==
  ( /\ AfterWelcome
    /\ PYWINAUTO_AVAILABLE
    /\ ~PYAUTOGUI_AVAILABLE
    /\ \E text \in {S_Next, S_AmpNext_gt, S_Suivant} : ShowsButton(desk, text) )
  => /\ ret = "True"
     /\ Len(OfKind(log, {"PostMessage"})) = 1

\* the entries of the OCR data f that contain text, whatever the case, with a
\* confidence of at least the threshold
AtThreshold(text, f) ==
  {i \in DOMAIN f.items :
     /\ Contains(Lower(text), Lower(f.items[i].text))
     /\ f.items[i].conf >= confidence_percent}

\* C24 as stated: the first search text of a request that some entry of the OCR
\* data contains with a confidence of at least 80 resolves to the centre
\* (left + width div 2, top + height div 2) of the first such entry, and the call
\* of click_coordinates goes there.
C24_CentreAtThreshold ==
  (Answered /\ ~dry_run /\ PYAUTOGUI_AVAILABLE /\ ~frame.fails) =>
     \A j \in DOMAIN all_search_texts(query.texts) :
        ( /\ AtThreshold(all_search_texts(query.texts)[j], frame) # {}
          /\ \A k \in 1..(j - 1) :
               AtThreshold(all_search_texts(query.texts)[k], frame) = {} )
        => /\ Positions(out.ev) # <<>>
           /\ Positions(out.ev)[1]
                = << frame.items[Min(AtThreshold(all_search_texts(query.texts)[j],
                                                 frame))].left
                     + frame.items[Min(AtThreshold(all_search_texts(query.texts)[j],
                                                   frame))].width \div 2,
                     frame.items[Min(AtThreshold(all_search_texts(query.texts)[j],
                                                 frame))].top
                     + frame.items[Min(AtThreshold(all_search_texts(query.texts)[j],
                                                   frame))].height \div 2 >>

\* click_with_win32gui has answered the request
Clicked ==
  /\ query.fn = "click_with_win32gui"
  /\ out # NoOut

\* C25: click_with_win32gui moves no pointer and synthesizes no click or key: all
\* it does besides enumerating windows is PostMessage, and when it returns True
\* the last thing it did is one PostMessage to a visible button of the window
\* tree.
C25_NativeClickNoPointer ==
  Clicked =>
    /\ \A i \in DOMAIN out.ev :
         out.ev[i].k \in {"EnumWindows", "FindWindow", "EnumChildWindows",
                          "PostMessage", "PostMessage_raised"}
    /\ out.ret = "True" =>
         /\ Len(OfKind(out.ev, {"PostMessage"})) = 1
         /\ out.ev[Len(out.ev)].k = "PostMessage"
         /\ HandleOf(out.ev[Len(out.ev)], desk, {"Button"})
    /\ out.ret = "False" => OfKind(out.ev, {"PostMessage"}) = <<>>

\* the click message went to the second control of a window
C25_Witness ==
  /\ Clicked
  /\ out.ret = "True"
  /\ out.ev[Len(out.ev)].k = "PostMessage"
  /\ out.ev[Len(out.ev)].m = 2

\* the poll whose log is l posted its click message to a button naming text
\* after enums window enumerations
PostedTo(l, text, enums) ==
  /\ Len(OfKind(l, {"EnumWindows"})) = enums
  /\ Contains(Lower(text), Lower(StripAmp(OfKind(l, {"PostMessage"})[1].s)))
  /\ l[Len(l)].k = "PostMessage"

\* C26: while wait_for_completion loops, a step taken before 180 s have elapsed
\* is a poll that tries Finish and, only when Finish was not clicked, Close; a
\* poll that clicked one of them ends the wait with True and is the last, a poll
\* that clicked none sleeps and leaves at least 2 s more elapsed; a failure
\* inside click_with_win32gui only makes the poll click nothing. Once 180 s have
\* elapsed the step taken is not a poll and ends the wait.
C26_PollingBounded ==
  [][ (state = "AwaitingCompletion" /\ waiting) =>
        IF elapsed < completion_timeout
          THEN /\ Len(OfKind(log', {"PostMessage"})) <= 1
               /\ ShowsButton(desk', T_Finish) => OfKind(log', {"PostMessage"}) # <<>>
               /\ IF OfKind(log', {"PostMessage"}) # <<>>
                    THEN /\ \/ PostedTo(log', S_Finish, 1)
                            \/ /\ PostedTo(log', S_Close, 2)
                               /\ ~ShowsButton(desk', T_Finish)
                         /\ ~waiting'
                         /\ state' = "Verified"
                         /\ ret' = "True"
                    ELSE /\ Len(OfKind(log', {"EnumWindows"})) = 2
                         /\ log'[Len(log')] = Sleep(2000)
                         /\ waiting'
                         /\ state' = "AwaitingCompletion"
                         /\ elapsed' >= elapsed + 2
          ELSE /\ OfKind(log', {"EnumWindows", "PostMessage"}) = <<>>
               /\ ~waiting'
               /\ state' # "AwaitingCompletion" ]_vars

\* after polls that clicked nothing, one of them with an EnumWindows that raised,
\* a poll met a window showing Close and Finish and clicked Finish
C26_Witness ==
  /\ state = "Verified"
  /\ elapsed > 2
  /\ desk = DeskList[9]
  /\ PostedTo(log, S_Finish, 1)

\* the value was entered into a field: set as the text of an edit control, or
\* typed into the field that was clicked
Entered_value(l, value) ==
  \E i \in DOMAIN l :
    /\ l[i].k \in {"WM_SETTEXT", "write"}
    /\ l[i].s = value

\* C27 as stated: when handle_activation_information reports success in a real
\* run, the server address, the tag and the license key have each been entered
\* into a field during that step.
C27_SuccessOnlyIfAllFilled ==
  (AfterActivation /\ ret = "True") =>
     /\ Entered_value(log, S_server_address)
     /\ Entered_value(log, tag)
     /\ Entered_value(log, S_license_key)

\* the keywords of the keyboard shortcuts and their keys, in the order of
\* precedence
Shortcuts ==
  << <<S_kw_next, "n">>, <<S_kw_accept, "a">>, <<S_kw_install, "i">>,
     <<S_kw_finish, "f">> >>

\* the positions of Shortcuts whose keyword the role contains, whatever the case
Keywords(role) ==
  {i \in DOMAIN Shortcuts : Contains(Shortcuts[i][1], Lower(role))}

\* C28: when smart_find_and_click comes to its keyboard strategy (nothing on the
\* screen matched and there is no fallback position), it calls pyautogui.hotkey
\* once, with Alt and the key of the first of next, accept, install, finish that
\* the role contains, and returns True unless the call raises; when the role
\* contains none of them or pyautogui is missing, it sends no key and returns
\* False.
C28_ShortcutPrecedence ==
  (Answered /\ ~dry_run /\ NothingMatches /\ query.fallback = <<>>) =>
     IF PYAUTOGUI_AVAILABLE /\ Keywords(query.role) # {}
       THEN /\ Len(OfKind(out.ev, {"hotkey", "hotkey_raised"})) = 1
            /\ OfKind(out.ev, {"hotkey", "hotkey_raised"})[1].s
                 = <<"alt", Shortcuts[Min(Keywords(query.role))][2]>>
            /\ out.ret = "True" <=> ~keyFails
            /\ out.ret # "False"
       ELSE /\ OfKind(out.ev, {"hotkey", "hotkey_raised"}) = <<>>
            /\ out.ret = "False"

\* a role that names install before next, in capitals: Alt+N was sent
C28_Witness ==
  /\ Answered
  /\ ~dry_run
  /\ query.role = T_role_install_next
  /\ Keywords(query.role) = {1, 3}
  /\ out.ret = "True"
  /\ OfKind(out.ev, {"hotkey"}) = <<Ev("hotkey", <<"alt", "n">>, 0, 0)>>

\* C29: when a step handler raised, run_installation has caught the exception:
\* the run is in Failed and has returned False, the raising call is the last
\* thing that was done, no step after the raising one was invoked, and the
\* process ends with code 1. run_installation returns nothing but True or False.
C29_ExceptionCaught ==
  /\ result \in {"running", "True", "False"}
  /\ ret = "raise" =>
       /\ state = "Failed"
       /\ result = "False"
       /\ visited[Len(visited)] = "Failed"
       /\ log[Len(log)].k \in {"click_coordinates_raised", "hotkey_raised"}
       /\ \A s \in Steps : calls[s] = IF s \in Entered(visited) THEN 1 ELSE 0
       /\ exit_code \in {-1, 1}

\* the License step raised at its keyboard shortcut and the process ended
C29_Witness ==
  /\ ret = "raise"
  /\ visited = <<"Launched", "Welcome", "License", "Failed">>
  /\ log[Len(log)].k = "hotkey_raised"
  /\ exit_code = 1

\* C30: run_installation returns once, and the step in which it returns, with
\* True or with False, whatever the reason, leaves self.app cleared; before
\* that the binding made by launch_installer is kept, and after it nothing runs
\* that could bind again.
C30_CleanupOnReturn ==
  [][/\ (result = "running" /\ result' # "running") =>
          /\ app' = "None"
          /\ state' \in {"Done", "Failed"}
     /\ result # "running" =>
          /\ result' = result
          /\ state' = state
          /\ calls' = calls
          /\ app' = "None"
     /\ (result' = "running" /\ state # "Launched") => app' = app]_vars

\* the run failed at the Welcome step, which had still read the bound window
C30_Witness ==
  /\ visited = <<"Launched", "Welcome", "Failed">>
  /\ OfKind(log, {"pywinauto_window"}) # <<>>
  /\ result = "False"
  /\ app = "None"

\* the control of the window tree d that the event e names
ControlOf(e, d) ==
  d.wins[e.n].children[e.m]

\* C31: every click message of click_with_win32gui goes to a visible control of
\* class Button whose text, without ampersands and in lower case, contains the
\* button text asked for, likewise cleaned, and does not contain "not".
C31_NativeMatchNeverNot ==
  Clicked =>
    \A i \in DOMAIN out.ev :
      out.ev[i].k \in {"PostMessage", "PostMessage_raised"} =>
        /\ HandleOf(out.ev[i], desk, {"Button"})
        /\ ControlOf(out.ev[i], desk).text = out.ev[i].s
        /\ Contains(Lower(StripAmp(query.texts[1])),
                    Lower(StripAmp(ControlOf(out.ev[i], desk).text)))
        /\ ~Contains(S_not, Lower(StripAmp(ControlOf(out.ev[i], desk).text)))

\* asked for "accept" in the License window, the click went to "I accept", the
\* second button, and not to "I do not accept", the first
C31_Witness ==
  /\ Clicked
  /\ query.texts = <<S_accept>>
  /\ desk = DeskList[3]
  /\ out.ret = "True"
  /\ OfKind(out.ev, {"PostMessage"}) = <<Ev("PostMessage", T_I_accept, 1, 2)>>

\* the children of window w that the request for text matches: visible buttons
\* whose cleaned text contains the cleaned text and not "not"
Matching(text, w) ==
  {b \in DOMAIN w.children :
     /\ w.children[b].visible
     /\ w.children[b].cls = "Button"
     /\ Contains(Lower(StripAmp(text)), Lower(StripAmp(w.children[b].text)))
     /\ ~Contains(S_not, Lower(StripAmp(w.children[b].text)))}

\* the visible installer windows of d that show a match for text
VisibleMatching(text, d) ==
  {h \in DOMAIN d.wins :
     /\ d.wins[h].visible
     /\ Contains(S_TEHTRIS_EDR_Setup, d.wins[h].title)
     /\ Matching(text, d.wins[h]) # {}}

\* the click messages of the answer
Posts ==
  OfKind(out.ev, {"PostMessage"})

\* C32 as stated: a call posts at most one click message, to the first matching
\* button of the first visible installer window that shows a match, and returns
\* True exactly when it posted one; without a visible installer window it
\* returns False and has posted nothing.
C32_OnePostFirstWindow ==
  Clicked =>
    /\ Len(Posts) <= 1
    /\ out.ret = "True" <=> Posts # <<>>
    /\ Posts # <<>> =>
         /\ VisibleMatching(query.texts[1], desk) # {}
         /\ Posts[1].n = Min(VisibleMatching(query.texts[1], desk))
         /\ Posts[1].m = Min(Matching(query.texts[1], desk.wins[Posts[1].n]))
    /\ VisibleMatching(query.texts[1], desk) # {} => Posts # <<>>
    /\ (\A h \in DOMAIN desk.wins : ~is_tehtris_window(desk.wins[h])) =>
         /\ out.ret = "False"
         /\ OfKind(out.ev, {"PostMessage", "PostMessage_raised", "EnumChildWindows"})
              = <<>>

\* the installer windows the call searches: the visible ones, or, when
\* EnumWindows raised, the first window titled exactly "TEHTRIS EDR Setup"
Searched(d) ==
  IF d.enumFails
    THEN {h \in DOMAIN d.wins :
            /\ d.wins[h].title = S_TEHTRIS_EDR_Setup
            /\ \A g \in 1..(h - 1) : d.wins[g].title # S_TEHTRIS_EDR_Setup}
    ELSE {h \in DOMAIN d.wins :
            /\ d.wins[h].visible
            /\ Contains(S_TEHTRIS_EDR_Setup, d.wins[h].title)}

\* the searched windows whose children can be enumerated and whose first match
\* takes the click message
Takes(text, d) ==
  {h \in Searched(d) :
     /\ ~d.wins[h].enumFails
     /\ Matching(text, d.wins[h]) # {}
     /\ ~d.wins[h].children[Min(Matching(text, d.wins[h]))].postFails}

\* C32 amended: a call posts at most one click message and returns True exactly
\* when it posted one; the message goes to the first matching button of the
\* first searched window, in enumeration order, whose children can be
\* enumerated and whose first matching button takes the message, windows
\* before it being passed over. The searched windows are the visible installer
\* windows or, when EnumWindows raised, the window FindWindow gives, visible or
\* not; when there is none the call returns False and does nothing more.
C32_OnePostFirstWindowThatTakesIt ==
  Clicked =>
    /\ Len(Posts) <= 1
    /\ out.ret = "True" <=> Posts # <<>>
    /\ Posts # <<>> <=> Takes(query.texts[1], desk) # {}
    /\ Posts # <<>> =>
         /\ Posts[1].n = Min(Takes(query.texts[1], desk))
         /\ Posts[1].m = Min(Matching(query.texts[1], desk.wins[Posts[1].n]))
         /\ out.ev[Len(out.ev)] = Posts[1]
    /\ Searched(desk) = {} =>
         /\ out.ret = "False"
         /\ OfKind(out.ev, {"PostMessage", "PostMessage_raised", "EnumChildWindows"})
              = <<>>

\* the first window's button did not take the message: the call went on and
\* posted to the second button of the second window
C32_Witness ==
  /\ Clicked
  /\ out.ret = "True"
  /\ Len(desk.wins) = 2
  /\ OfKind(out.ev, {"PostMessage_raised"}) = <<Ev("PostMessage_raised", S_AmpNext_gt, 1, 1)>>
  /\ Posts = <<Ev("PostMessage", S_AmpNext_gt, 2, 2)>>

\* the Activation step has succeeded by its native path: three texts set and
\* the click message for Next posted
NativeActivation ==
  /\ AfterActivation
  /\ ret = "True"
  /\ Cardinality(Sets(log)) = 3
  /\ OfKind(log, {"PostMessage"}) # <<>>

\* C33 as stated: when the Activation step succeeds by its native path, the
\* server address, the tag and the license key were set in the input controls
\* of index 0, 1 and 2 of one and the same installer window.
C33_OneWindowThreeFields ==
  NativeActivation =>
    \E h \in DOMAIN desk.wins :
      \E i1, i2, i3 \in Sets(log) :
        /\ log[i1].n = h /\ log[i2].n = h /\ log[i3].n = h
        /\ Len(edit_controls(desk.wins[h])) >= 3
        /\ SetsField(log, i1, S_server_address, 0)
        /\ SetsField(log, i2, tag, 1)
        /\ SetsField(log, i3, S_license_key, 2)
====
